---- MODULE Spec2Model ----
(***************************************************************************)
(* Model of src/src/internal/env.ts: the R2 bucket facade, its error       *)
(* classification cascade (mapError) and the tri-state result protocol     *)
(* of head / get / put.                                                    *)
(*                                                                         *)
(* JavaScript values are modelled as follows.                              *)
(*   - an optional number (error.code, error.status) is a set holding at   *)
(*     most one integer: {} is undefined, {429} is the number 429;         *)
(*   - an optional string (the key argument) is a set holding at most one  *)
(*     string: {} is undefined, {""} is the empty string;                  *)
(*   - the message property of a thrown value is a record                  *)
(*     [type, text]: type is the typeof of the property and text is its    *)
(*     String() form, so a number 42 is [type |-> "number", text |-> "42"] *)
(*     and a missing property is [type |-> "undefined", text |-> ""];      *)
(*   - text is a TLA+ string, and String.prototype.includes is the         *)
(*     case-sensitive substring test Includes.                             *)
(***************************************************************************)
EXTENDS Integers, Sequences, FiniteSets, TLC

VARIABLES
    error,      \* mapError: the raw failure being classified
    operation,  \* mapError: the operation argument
    key,        \* mapError: the key argument (optional string)
    result,     \* mapError: its outcome (returned variant or thrown exception)
    calls,      \* facade: the runs of its operations, by call id
    providerCalls,  \* provider: the method calls it received, in order
    env,        \* makeEnv: the raw bindings, by name
    effectEnv,  \* makeEnv: its result (NotCalled before the call)
    instances,  \* error classes: the errors constructed and their messages
    classified  \* mapError: the record of its calls, oldest first

vars ==
    <<error, operation, key, result, calls, providerCalls, env, effectEnv,
      instances, classified>>

----------------------------------------------------------------------------
(* R2ErrorCode, env.ts lines 99-114, and the two literal case labels of     *)
(* mapError (lines 1376 and 1381).                                          *)

INTERNAL_ERROR == 10001
NO_SUCH_OBJECT_KEY == 10007
ENTITY_TOO_LARGE == 100100
ENTITY_TOO_SMALL == 10011
METADATA_TOO_LARGE == 10012
INVALID_OBJECT_NAME == 10020
INVALID_MAX_KEYS == 10022
NO_SUCH_UPLOAD == 10024
INVALID_PART == 10025
INVALID_ARGUMENT == 10029
PRECONDITION_FAILED == 10031
BAD_DIGEST == 10037
INVALID_RANGE == 10039
BAD_UPLOAD == 10048
NO_SUCH_BUCKET == 10006
NOT_ENABLED == 10042

(* R2Operation, env.ts lines 141-152. *)
R2Operation ==
    { "head", "get", "put", "delete", "list", "createMultipartUpload",
      "resumeMultipartUpload", "uploadPart", "completeMultipartUpload",
      "abortMultipartUpload" }

----------------------------------------------------------------------------
(* JavaScript primitives used by mapError. *)

Undefined == [type |-> "undefined", text |-> ""]
Str(s) == [type |-> "string", text |-> s]
Num(s) == [type |-> "number", text |-> s]

(* String.prototype.includes: kw occurs in m as a contiguous substring. *)
Includes(m, kw) ==
    \E i \in 1..(Len(m) - Len(kw) + 1) : SubSeq(m, i, i + Len(kw) - 1) = kw

(* String(error) for the shapes of thrown value the model draws. *)
StringOf(e) ==
    CASE e.shape = "null" -> "null"
      [] e.shape = "undefined" -> "undefined"
      [] e.shape = "string" -> e.text
      [] OTHER -> "[object Object]"

(* String.prototype.toLowerCase on the letters A to Z. *)
LowerChar(c) ==
    CASE c = "A" -> "a" [] c = "B" -> "b" [] c = "C" -> "c" [] c = "D" -> "d"
      [] c = "E" -> "e" [] c = "F" -> "f" [] c = "G" -> "g" [] c = "H" -> "h"
      [] c = "I" -> "i" [] c = "J" -> "j" [] c = "K" -> "k" [] c = "L" -> "l"
      [] c = "M" -> "m" [] c = "N" -> "n" [] c = "O" -> "o" [] c = "P" -> "p"
      [] c = "Q" -> "q" [] c = "R" -> "r" [] c = "S" -> "s" [] c = "T" -> "t"
      [] c = "U" -> "u" [] c = "V" -> "v" [] c = "W" -> "w" [] c = "X" -> "x"
      [] c = "Y" -> "y" [] c = "Z" -> "z" [] OTHER -> c

RECURSIVE Lower(_)
Lower(s) ==
    IF Len(s) = 0
    THEN ""
    ELSE LowerChar(SubSeq(s, 1, 1)) \o Lower(SubSeq(s, 2, Len(s)))

(* An alternative extraction that lowercases the message before the scan. *)
MessageOf_Lowercased(e) ==
    IF e.shape = "object" /\ e.message.type # "undefined"
    THEN IF e.message.type = "string"
         THEN Str(Lower(e.message.text))
         ELSE e.message
    ELSE Str(Lower(StringOf(e)))

(* errorObj?.message ?? String(error), env.ts line 1283. *)
MessageOf(e) ==
    IF e.shape = "object" /\ e.message.type # "undefined"
    THEN e.message
    ELSE Str(StringOf(e))

(* (error as any)?.status and ?.code, env.ts lines 1284-1285. *)
StatusOf(e) == IF e.shape = "object" THEN e.status ELSE {}
CodeOf(e) == IF e.shape = "object" THEN e.code ELSE {}

(* key ?? "" *)
KeyOrEmpty(k) == IF k = {} THEN "" ELSE CHOOSE s \in k : TRUE

(* extractReason, env.ts lines 1262-1264. *)
extractReason(message) == message

Return(v) == [kind |-> "return", value |-> v]
Throw(name) == [kind |-> "throw", exception |-> name]

----------------------------------------------------------------------------
(* The error classes (Schema.TaggedError).  A constructor validates its    *)
(* properties against the declared fields: a Schema.String field given a   *)
(* non-string makes the constructor throw a ParseError.  A field declared  *)
(* Schema.String holds a present string ({s}); a Schema.optional field     *)
(* holds the optional it was given ({} when undefined).                    *)

IsString(v) == v.type = "string"

(* The optional fields a property object provides: an instance has the     *)
(* field exactly when the properties give it a value.                      *)
Provided(props, fields) ==
    [f \in (DOMAIN props) \cap fields |-> props[f]]

WithProvided(instance, props, fields) ==
    IF (DOMAIN props) \cap fields = {}
    THEN instance
    ELSE instance @@ Provided(props, fields)

R2RateLimitError(props) ==
    Return(WithProvided([tag |-> "R2RateLimitError", key |-> {props.key},
                         operation |-> props.operation],
                        props, {"retryAfter"}))

R2ConcurrencyError(props) ==
    IF IsString(props.reason)
    THEN Return([tag |-> "R2ConcurrencyError", key |-> props.key,
                 operation |-> props.operation, reason |-> props.reason.text])
    ELSE Throw("ParseError")

R2ObjectTooLargeError(props) ==
    Return(WithProvided([tag |-> "R2ObjectTooLargeError",
                         key |-> {props.key},
                         operation |-> props.operation],
                        props, {"sizeBytes", "limit"}))

R2InvalidKeyError(props) ==
    IF IsString(props.reason)
    THEN Return([tag |-> "R2InvalidKeyError", key |-> {props.key},
                 operation |-> props.operation, reason |-> props.reason.text])
    ELSE Throw("ParseError")

R2MetadataError(props) ==
    IF IsString(props.reason)
    THEN Return(WithProvided([tag |-> "R2MetadataError",
                              key |-> {props.key},
                              operation |-> props.operation,
                              reason |-> props.reason.text],
                             props, {"sizeBytes"}))
    ELSE Throw("ParseError")

R2PreconditionFailedError(props) ==
    IF IsString(props.condition)
    THEN Return([tag |-> "R2PreconditionFailedError", key |-> {props.key},
                 operation |-> props.operation,
                 condition |-> props.condition.text])
    ELSE Throw("ParseError")

R2MultipartError(props) ==
    IF IsString(props.reason)
    THEN Return(WithProvided([tag |-> "R2MultipartError", key |-> props.key,
                              operation |-> props.operation,
                              reason |-> props.reason.text],
                             props, {"uploadId", "partNumber"}))
    ELSE Throw("ParseError")

R2BucketNotFoundError(props) ==
    Return(WithProvided([tag |-> "R2BucketNotFoundError",
                         operation |-> props.operation],
                        props, {"bucketName"}))

R2NotEnabledError(props) ==
    Return([tag |-> "R2NotEnabledError", operation |-> props.operation])

R2AuthorizationError(props) ==
    IF IsString(props.reason)
    THEN Return([tag |-> "R2AuthorizationError",
                 operation |-> props.operation, reason |-> props.reason.text])
    ELSE Throw("ParseError")

R2NetworkError(props) ==
    IF IsString(props.reason)
    THEN Return([tag |-> "R2NetworkError", key |-> props.key,
                 operation |-> props.operation, reason |-> props.reason.text,
                 cause |-> props.cause])
    ELSE Throw("ParseError")

R2ObjectTooSmallError(props) ==
    Return(WithProvided([tag |-> "R2ObjectTooSmallError",
                         key |-> {props.key},
                         operation |-> props.operation],
                        props, {"sizeBytes", "partNumber"}))

R2BadDigestError(props) ==
    IF IsString(props.reason)
    THEN Return(WithProvided([tag |-> "R2BadDigestError",
                              key |-> {props.key},
                              operation |-> props.operation,
                              reason |-> props.reason.text],
                             props, {"algorithm"}))
    ELSE Throw("ParseError")

R2InvalidMaxKeysError(props) ==
    Return(WithProvided([tag |-> "R2InvalidMaxKeysError",
                         operation |-> props.operation],
                        props, {"limit"}))

R2InvalidRangeError(props) ==
    IF IsString(props.reason)
    THEN Return([tag |-> "R2InvalidRangeError", key |-> {props.key},
                 operation |-> props.operation, reason |-> props.reason.text])
    ELSE Throw("ParseError")

R2InvalidArgumentError(props) ==
    IF IsString(props.reason)
    THEN Return([tag |-> "R2InvalidArgumentError",
                 operation |-> props.operation, reason |-> props.reason.text,
                 key |-> props.key])
    ELSE Throw("ParseError")

R2InternalError(props) ==
    IF IsString(props.reason)
    THEN Return([tag |-> "R2InternalError", operation |-> props.operation,
                 reason |-> props.reason.text, key |-> props.key])
    ELSE Throw("ParseError")

(* The R2BucketError union, env.ts lines 1092-1109. *)
R2BucketError ==
    { "R2RateLimitError", "R2ConcurrencyError", "R2ObjectTooLargeError",
      "R2ObjectTooSmallError", "R2InvalidKeyError", "R2InvalidRangeError",
      "R2MetadataError", "R2PreconditionFailedError", "R2MultipartError",
      "R2BucketNotFoundError", "R2NotEnabledError", "R2AuthorizationError",
      "R2BadDigestError", "R2InvalidMaxKeysError", "R2InvalidArgumentError",
      "R2InternalError", "R2NetworkError" }

----------------------------------------------------------------------------
(* mapError, env.ts lines 1277-1519.  Each switch is an operator that      *)
(* returns FallThrough when no case label matches.  message.includes on a  *)
(* message that is not a string throws a TypeError.                        *)

FallThrough == [kind |-> "fallthrough"]

(* Priority 1: switch (code), env.ts lines 1288-1385. *)
CodeSwitch(code, message, operation_, key_) ==
    CASE code = {INTERNAL_ERROR} ->
           R2InternalError([operation |-> operation_,
                            reason |-> extractReason(message), key |-> key_])
      [] code = {ENTITY_TOO_LARGE} ->
           R2ObjectTooLargeError([key |-> KeyOrEmpty(key_),
                                  operation |-> operation_])
      [] code = {ENTITY_TOO_SMALL} ->
           R2ObjectTooSmallError([key |-> KeyOrEmpty(key_),
                                  operation |-> operation_])
      [] code = {METADATA_TOO_LARGE} ->
           R2MetadataError([key |-> KeyOrEmpty(key_), operation |-> operation_,
                            reason |-> Str("Metadata exceeds size limit")])
      [] code = {INVALID_OBJECT_NAME} ->
           R2InvalidKeyError([key |-> KeyOrEmpty(key_),
                              operation |-> operation_,
                              reason |-> extractReason(message)])
      [] code = {INVALID_MAX_KEYS} ->
           R2InvalidMaxKeysError([operation |-> operation_])
      [] code = {NO_SUCH_UPLOAD} ->
           R2MultipartError([key |-> key_, operation |-> operation_,
               reason |-> Str("The specified multipart upload does not exist")])
      [] code = {INVALID_PART} ->
           R2MultipartError([key |-> key_, operation |-> operation_,
               reason |->
                 Str("One or more of the specified parts could not be found")])
      [] code = {INVALID_ARGUMENT} ->
           R2InvalidArgumentError([operation |-> operation_,
                                   reason |-> extractReason(message),
                                   key |-> key_])
      [] code = {PRECONDITION_FAILED} ->
           R2PreconditionFailedError([key |-> KeyOrEmpty(key_),
                                      operation |-> operation_,
                                      condition |-> extractReason(message)])
      [] code = {BAD_DIGEST} ->
           R2BadDigestError([key |-> KeyOrEmpty(key_),
                             operation |-> operation_,
                             reason |-> extractReason(message)])
      [] code = {INVALID_RANGE} ->
           R2InvalidRangeError([key |-> KeyOrEmpty(key_),
                                operation |-> operation_,
                                reason |-> extractReason(message)])
      [] code = {BAD_UPLOAD} ->
           R2MultipartError([key |-> key_, operation |-> operation_,
               reason |-> Str("There was a problem with the multipart upload")])
      [] code = {NO_SUCH_BUCKET} ->
           R2BucketNotFoundError([operation |-> operation_])
      [] code = {NOT_ENABLED} ->
           R2NotEnabledError([operation |-> operation_])
      [] OTHER -> FallThrough

(* Mutant: a 400 with an unrecognized message is treated as unknown. *)
Generic400_Network(error_, message, operation_, key_) ==
    R2NetworkError([key |-> key_, operation |-> operation_,
                    reason |-> extractReason(message), cause |-> error_])

(* Generic 400 error, env.ts lines 1480-1485. *)
Generic400(error_, message, operation_, key_) ==
    R2InvalidArgumentError([operation |-> operation_,
                            reason |-> extractReason(message), key |-> key_])

(* Mutant: the multipart keywords are tested before the key keywords. *)
Case400_MultipartFirst(error_, message, operation_, key_) ==
    IF ~IsString(message) THEN Throw("TypeError")
    ELSE LET m == message.text IN
      IF \/ Includes(m, "multipart") \/ Includes(m, "part")
         \/ Includes(m, "upload") \/ Includes(m, "NoSuchUpload")
         \/ Includes(m, "InvalidPart")
      THEN R2MultipartError([key |-> key_, operation |-> operation_,
                             reason |-> extractReason(message)])
      ELSE IF Includes(m, "key")
              /\ (Includes(m, "empty") \/ Includes(m, "invalid"))
      THEN R2InvalidKeyError([key |-> KeyOrEmpty(key_),
                              operation |-> operation_,
                              reason |-> extractReason(message)])
      ELSE IF Includes(m, "metadata") \/ Includes(m, "Metadata")
      THEN R2MetadataError([key |-> KeyOrEmpty(key_),
                            operation |-> operation_,
                            reason |-> extractReason(message)])
      ELSE IF Includes(m, "digest") \/ Includes(m, "checksum")
      THEN R2BadDigestError([key |-> KeyOrEmpty(key_),
                             operation |-> operation_,
                             reason |-> extractReason(message)])
      ELSE IF Includes(m, "too large") \/ Includes(m, "exceeds")
      THEN R2ObjectTooLargeError([key |-> KeyOrEmpty(key_),
                                  operation |-> operation_])
      ELSE IF Includes(m, "too small")
      THEN R2ObjectTooSmallError([key |-> KeyOrEmpty(key_),
                                  operation |-> operation_])
      ELSE R2InvalidArgumentError([operation |-> operation_,
                                   reason |-> extractReason(message),
                                   key |-> key_])

(* Mutant: "too small" is tested before "too large" / "exceeds". *)
Case400_SmallBeforeLarge(error_, message, operation_, key_) ==
    IF ~IsString(message) THEN Throw("TypeError")
    ELSE LET m == message.text IN
      IF Includes(m, "key") /\ (Includes(m, "empty") \/ Includes(m, "invalid"))
      THEN R2InvalidKeyError([key |-> KeyOrEmpty(key_),
                              operation |-> operation_,
                              reason |-> extractReason(message)])
      ELSE IF Includes(m, "metadata") \/ Includes(m, "Metadata")
      THEN R2MetadataError([key |-> KeyOrEmpty(key_),
                            operation |-> operation_,
                            reason |-> extractReason(message)])
      ELSE IF \/ Includes(m, "multipart") \/ Includes(m, "part")
              \/ Includes(m, "upload") \/ Includes(m, "NoSuchUpload")
              \/ Includes(m, "InvalidPart")
      THEN R2MultipartError([key |-> key_, operation |-> operation_,
                             reason |-> extractReason(message)])
      ELSE IF Includes(m, "digest") \/ Includes(m, "checksum")
      THEN R2BadDigestError([key |-> KeyOrEmpty(key_),
                             operation |-> operation_,
                             reason |-> extractReason(message)])
      ELSE IF Includes(m, "too small")
      THEN R2ObjectTooSmallError([key |-> KeyOrEmpty(key_),
                                  operation |-> operation_])
      ELSE IF Includes(m, "too large") \/ Includes(m, "exceeds")
      THEN R2ObjectTooLargeError([key |-> KeyOrEmpty(key_),
                                  operation |-> operation_])
      ELSE R2InvalidArgumentError([operation |-> operation_,
                                   reason |-> extractReason(message),
                                   key |-> key_])

(* case 400: message inspection, env.ts lines 1423-1485. *)
Case400(error_, message, operation_, key_) ==
    IF ~IsString(message) THEN Throw("TypeError")
    ELSE LET m == message.text IN
      IF Includes(m, "key") /\ (Includes(m, "empty") \/ Includes(m, "invalid"))
      THEN R2InvalidKeyError([key |-> KeyOrEmpty(key_),
                              operation |-> operation_,
                              reason |-> extractReason(message)])
      ELSE IF Includes(m, "metadata") \/ Includes(m, "Metadata")
      THEN R2MetadataError([key |-> KeyOrEmpty(key_),
                            operation |-> operation_,
                            reason |-> extractReason(message)])
      ELSE IF \/ Includes(m, "multipart") \/ Includes(m, "part")
              \/ Includes(m, "upload") \/ Includes(m, "NoSuchUpload")
              \/ Includes(m, "InvalidPart")
      THEN R2MultipartError([key |-> key_, operation |-> operation_,
                             reason |-> extractReason(message)])
      ELSE IF Includes(m, "digest") \/ Includes(m, "checksum")
      THEN R2BadDigestError([key |-> KeyOrEmpty(key_),
                             operation |-> operation_,
                             reason |-> extractReason(message)])
      ELSE IF Includes(m, "too large") \/ Includes(m, "exceeds")
      THEN R2ObjectTooLargeError([key |-> KeyOrEmpty(key_),
                                  operation |-> operation_])
      ELSE IF Includes(m, "too small")
      THEN R2ObjectTooSmallError([key |-> KeyOrEmpty(key_),
                                  operation |-> operation_])
      ELSE Generic400(error_, message, operation_, key_)

(* Priority 2: switch (status), env.ts lines 1388-1486. *)
StatusSwitch(error_, status, message, operation_, key_) ==
    CASE status = {429} ->
           R2RateLimitError([key |-> KeyOrEmpty(key_),
                             operation |-> operation_])
      [] status = {412} ->
           R2PreconditionFailedError([key |-> KeyOrEmpty(key_),
                                      operation |-> operation_,
                                      condition |-> extractReason(message)])
      [] status = {416} ->
           R2InvalidRangeError([key |-> KeyOrEmpty(key_),
                                operation |-> operation_,
                                reason |-> extractReason(message)])
      [] status \in {{401}, {403}} ->
           R2AuthorizationError([operation |-> operation_,
                                 reason |-> extractReason(message)])
      [] status = {500} ->
           R2InternalError([operation |-> operation_,
                            reason |-> extractReason(message), key |-> key_])
      [] status = {400} -> Case400(error_, message, operation_, key_)
      [] OTHER -> FallThrough

(* Mutant: the message is passed as the cause instead of the failure. *)
Fallback_MessageAsCause(error_, message, operation_, key_) ==
    R2NetworkError([key |-> key_, operation |-> operation_,
                    reason |-> message, cause |-> message])

(* Fallback: Network/unknown error, env.ts lines 1512-1518. *)
Fallback(error_, message, operation_, key_) ==
    R2NetworkError([key |-> key_, operation |-> operation_,
                    reason |-> message, cause |-> error_])

(* Mutant: the concurrency keywords are tested before NoSuchBucket. *)
MessageDetection_ConcurrencyFirst(error_, message, operation_, key_) ==
    IF ~IsString(message) THEN Throw("TypeError")
    ELSE LET m == message.text IN
      IF Includes(m, "TooMuchConcurrency") \/ Includes(m, "concurrency")
      THEN R2ConcurrencyError([key |-> key_, operation |-> operation_,
                               reason |-> extractReason(message)])
      ELSE IF Includes(m, "NoSuchBucket")
      THEN R2BucketNotFoundError([operation |-> operation_])
      ELSE IF Includes(m, "Please enable") \/ Includes(m, "not entitled")
      THEN R2NotEnabledError([operation |-> operation_])
      ELSE Fallback(error_, message, operation_, key_)

(* Priority 3: message-based detection, env.ts lines 1488-1518. *)
MessageDetection(error_, message, operation_, key_) ==
    IF ~IsString(message) THEN Throw("TypeError")
    ELSE LET m == message.text IN
      IF Includes(m, "NoSuchBucket")
      THEN R2BucketNotFoundError([operation |-> operation_])
      ELSE IF Includes(m, "Please enable") \/ Includes(m, "not entitled")
      THEN R2NotEnabledError([operation |-> operation_])
      ELSE IF Includes(m, "TooMuchConcurrency") \/ Includes(m, "concurrency")
      THEN R2ConcurrencyError([key |-> key_, operation |-> operation_,
                               reason |-> extractReason(message)])
      ELSE Fallback(error_, message, operation_, key_)

(* Mutant: the status switch runs before the code switch. *)
mapError_StatusFirst(error_, operation_, key_) ==
    LET message == MessageOf(error_)
        status == StatusOf(error_)
        code == CodeOf(error_)
        byCode == CodeSwitch(code, message, operation_, key_)
        byStatus == StatusSwitch(error_, status, message, operation_, key_)
    IN  IF byStatus.kind # "fallthrough" THEN byStatus
        ELSE IF byCode.kind # "fallthrough" THEN byCode
        ELSE MessageDetection(error_, message, operation_, key_)

(* Mutant: the message-based detection runs before the status switch. *)
mapError_MessageFirst(error_, operation_, key_) ==
    LET message == MessageOf(error_)
        status == StatusOf(error_)
        code == CodeOf(error_)
        byCode == CodeSwitch(code, message, operation_, key_)
        byStatus == StatusSwitch(error_, status, message, operation_, key_)
        byMessage == MessageDetection(error_, message, operation_, key_)
    IN  IF byCode.kind # "fallthrough" THEN byCode
        ELSE IF byMessage.kind = "return"
                /\ byMessage.value.tag # "R2NetworkError" THEN byMessage
        ELSE IF byStatus.kind # "fallthrough" THEN byStatus
        ELSE byMessage

(* Mutant: the code switch has no case for ENTITY_TOO_SMALL. *)
mapError_MissingCase(error_, operation_, key_) ==
    LET message == MessageOf(error_)
        status == StatusOf(error_)
        code == CodeOf(error_)
        byCode == IF code = {ENTITY_TOO_SMALL} THEN FallThrough
                  ELSE CodeSwitch(code, message, operation_, key_)
        byStatus == StatusSwitch(error_, status, message, operation_, key_)
    IN  IF byCode.kind # "fallthrough" THEN byCode
        ELSE IF byStatus.kind # "fallthrough" THEN byStatus
        ELSE MessageDetection(error_, message, operation_, key_)

(* An alternative cascade with a case for the declared code               *)
(* NO_SUCH_OBJECT_KEY.                                                     *)
mapError_ObjectKey(error_, operation_, key_) ==
    LET message == MessageOf(error_)
        status == StatusOf(error_)
        code == CodeOf(error_)
        byCode == IF code = {NO_SUCH_OBJECT_KEY}
                  THEN R2InvalidKeyError([key |-> KeyOrEmpty(key_),
                                          operation |-> operation_,
                                          reason |-> extractReason(message)])
                  ELSE CodeSwitch(code, message, operation_, key_)
        byStatus == StatusSwitch(error_, status, message, operation_, key_)
    IN  IF byCode.kind # "fallthrough" THEN byCode
        ELSE IF byStatus.kind # "fallthrough" THEN byStatus
        ELSE MessageDetection(error_, message, operation_, key_)

mapError(error_, operation_, key_) ==
    LET message == MessageOf(error_)
        status == StatusOf(error_)
        code == CodeOf(error_)
        byCode == CodeSwitch(code, message, operation_, key_)
        byStatus == StatusSwitch(error_, status, message, operation_, key_)
    IN  IF byCode.kind # "fallthrough" THEN byCode
        ELSE IF byStatus.kind # "fallthrough" THEN byStatus
        ELSE MessageDetection(error_, message, operation_, key_)

----------------------------------------------------------------------------
(* The raw failures mapError is applied to. *)

MappedCodes ==
    { INTERNAL_ERROR, ENTITY_TOO_LARGE, ENTITY_TOO_SMALL, METADATA_TOO_LARGE,
      INVALID_OBJECT_NAME, INVALID_MAX_KEYS, NO_SUCH_UPLOAD, INVALID_PART,
      INVALID_ARGUMENT, PRECONDITION_FAILED, BAD_DIGEST, INVALID_RANGE,
      BAD_UPLOAD, NO_SUCH_BUCKET, NOT_ENABLED }

(* The declared but unused NO_SUCH_OBJECT_KEY, and an undeclared code. *)
UnmappedCodes == { NO_SUCH_OBJECT_KEY, 10002 }

RecognizedStatuses == { 429, 412, 416, 401, 403, 500, 400 }

Statuses == { {} } \cup { {s} : s \in RecognizedStatuses \cup {413, 599} }

(* One message per keyword group of the cascades, in the order the         *)
(* specification lists the groups.                                         *)
GroupMessage ==
    << "key is empty", "metadata", "multipart", "digest", "too large",
       "too small", "concurrency", "NoSuchBucket", "Please enable" >>

(* The message texts: two groups co-occurring in one message, each        *)
(* keyword on its own, and other texts.                                    *)
Texts ==
    { GroupMessage[i] \o " and " \o GroupMessage[j] :
        i \in 1..Len(GroupMessage), j \in 1..Len(GroupMessage) } \cup
    { GroupMessage[i] : i \in 1..Len(GroupMessage) } \cup
    { "key is invalid", "Metadata", "part", "upload", "NoSuchUpload",
      "InvalidPart", "checksum", "exceeds", "TooMuchConcurrency",
      "not entitled" } \cup
    { "", "Network timeout", "Invalid key", "key", "Key is Empty",
      "Too Large", "AccessDenied", "multipart upload part invalid",
      "the key for this upload is invalid", "multipart key missing",
      "metadata key multipart" }

(* The message property: missing, a string, or a value of another type. *)
Messages == { Undefined, Num("42") } \cup { Str(t) : t \in Texts }

Object(c, s, m) ==
    [shape |-> "object", code |-> c, status |-> s, message |-> m, text |-> ""]

(* Thrown values that are not objects: null, undefined, a string. *)
NonObjects ==
    { [shape |-> sh, code |-> {}, status |-> {}, message |-> Undefined,
       text |-> ""] : sh \in {"null", "undefined"} } \cup
    { [shape |-> "string", code |-> {}, status |-> {}, message |-> Undefined,
       text |-> t] : t \in {"boom", "NoSuchBucket", "concurrency"} }

Codes == { {} } \cup { {c} : c \in MappedCodes \cup UnmappedCodes }

RawFailures ==
    { Object(c, s, m) : c \in Codes, s \in Statuses, m \in Messages } \cup
    NonObjects

Keys == { {}, {""}, {"counter"} }

NotCalled == [kind |-> "notCalled"]

----------------------------------------------------------------------------
(* SpecMapError: mapError applied once to a raw failure. *)

InitMapError ==
    /\ error \in RawFailures
    /\ operation = "head"
    /\ key = {}
    /\ result = NotCalled
    /\ calls = <<>>
    /\ providerCalls = <<>>
    /\ env = <<>>
    /\ effectEnv = NotCalled
    /\ instances = <<>>
    /\ classified = <<>>

MapError ==
    /\ result = NotCalled
    /\ \E op \in R2Operation, k \in Keys :
         /\ operation' = op
         /\ key' = k
         /\ result' = mapError(error, op, k)
    /\ UNCHANGED <<error, calls, providerCalls, env, effectEnv,
                   instances, classified>>

SpecMapError == InitMapError /\ [][MapError]_vars

----------------------------------------------------------------------------
(* Vocabulary of the properties of mapError. *)

Called == result.kind # "notCalled"

Returned(t) == result.kind = "return" /\ result.value.tag = t

(* The failure carries no provider code that mapError recognizes. *)
NoMappedCode == \A c \in CodeOf(error) : c \notin MappedCodes

(* The message property is a string or is missing. *)
TextMessage == error.message.type \in {"string", "undefined"}

(* The text mapError inspects: the message when it is a string, and the    *)
(* String() form of the thrown value when there is none.                   *)
RawText ==
    IF error.shape = "object" /\ error.message.type = "string"
    THEN error.message.text
    ELSE StringOf(error)

(* The keyword groups, as data: a text matches a group when it contains    *)
(* every keyword of "all" and at least one keyword of "any".               *)
Group(variant, all, any) == [variant |-> variant, all |-> all, any |-> any]

KeyGroup == Group("R2InvalidKeyError", {"key"}, {"empty", "invalid"})
MetadataGroup == Group("R2MetadataError", {}, {"metadata", "Metadata"})
MultipartGroup ==
    Group("R2MultipartError", {},
          {"multipart", "part", "upload", "NoSuchUpload", "InvalidPart"})
DigestGroup == Group("R2BadDigestError", {}, {"digest", "checksum"})
TooLargeGroup == Group("R2ObjectTooLargeError", {}, {"too large", "exceeds"})
TooSmallGroup == Group("R2ObjectTooSmallError", {}, {"too small"})
ConcurrencyGroup ==
    Group("R2ConcurrencyError", {}, {"TooMuchConcurrency", "concurrency"})
BucketGroup == Group("R2BucketNotFoundError", {}, {"NoSuchBucket"})
NotEnabledGroup ==
    Group("R2NotEnabledError", {}, {"Please enable", "not entitled"})

Matches(g, t) ==
    /\ \A k \in g.all : Includes(t, k)
    /\ \E k \in g.any : Includes(t, k)

(* The variant of the first group of the sequence gs that t matches, or    *)
(* otherwise when t matches none.                                          *)
FirstMatch(gs, t, otherwise) ==
    IF \E i \in 1..Len(gs) : Matches(gs[i], t)
    THEN gs[CHOOSE i \in 1..Len(gs) :
              /\ Matches(gs[i], t)
              /\ \A j \in 1..(i - 1) : ~Matches(gs[j], t)].variant
    ELSE otherwise

(* The nine groups in the order the specification lists them. *)
ListedGroups ==
    << KeyGroup, MetadataGroup, MultipartGroup, DigestGroup, TooLargeGroup,
       TooSmallGroup, ConcurrencyGroup, BucketGroup, NotEnabledGroup >>

----------------------------------------------------------------------------
(* C1: mapError is total: applied to any raw failure, operation and key it *)
(* returns one variant of the R2BucketError union and never raises.        *)
(* Stated as the claim; the code violates it (a message that is not a      *)
(* string makes message.includes, or a constructor, throw).                *)
C1_Total ==
    Called => (result.kind = "return" /\ result.value.tag \in R2BucketError)

----------------------------------------------------------------------------
(* The rule-1 lookup table: provider code to variant. *)
CodeTable ==
    { <<10001, "R2InternalError">>, <<100100, "R2ObjectTooLargeError">>,
      <<10011, "R2ObjectTooSmallError">>, <<10012, "R2MetadataError">>,
      <<10020, "R2InvalidKeyError">>, <<10022, "R2InvalidMaxKeysError">>,
      <<10024, "R2MultipartError">>, <<10025, "R2MultipartError">>,
      <<10029, "R2InvalidArgumentError">>,
      <<10031, "R2PreconditionFailedError">>, <<10037, "R2BadDigestError">>,
      <<10039, "R2InvalidRangeError">>, <<10048, "R2MultipartError">>,
      <<10006, "R2BucketNotFoundError">>, <<10042, "R2NotEnabledError">> }

(* C2: a recognized provider code decides the variant whatever the status  *)
(* and the message text are, and an InvalidKey built from code 10020       *)
(* carries the given key ("" when none is given), the given operation and  *)
(* the raw message as reason.                                              *)
C2_CodeBeatsStatus ==
    (Called /\ TextMessage) =>
        \A e \in CodeTable :
            CodeOf(error) = {e[1]} =>
                /\ Returned(e[2])
                /\ e[1] = 10020 =>
                     result.value =
                        [tag |-> "R2InvalidKeyError",
                         key |-> IF key = {} THEN {""} ELSE key,
                         operation |-> operation, reason |-> RawText]

(* A code 10020 failure with the conflicting status 500 classified as      *)
(* InvalidKey.                                                             *)
C2_Witness ==
    /\ Called /\ CodeOf(error) = {10020} /\ StatusOf(error) = {500}
    /\ error.message = Str("Invalid key") /\ key = {""} /\ operation = "put"
    /\ result = Return([tag |-> "R2InvalidKeyError", key |-> {""},
                        operation |-> "put", reason |-> "Invalid key"])

----------------------------------------------------------------------------
(* The statuses of rule 2 that decide a variant on their own. *)
StatusTable ==
    { <<429, "R2RateLimitError">>, <<412, "R2PreconditionFailedError">>,
      <<416, "R2InvalidRangeError">>, <<401, "R2AuthorizationError">>,
      <<403, "R2AuthorizationError">>, <<500, "R2InternalError">> }

(* C3: with no recognized provider code, each of the statuses 429, 412,    *)
(* 416, 401, 403 and 500 decides the variant whatever the message text     *)
(* contains, and the variant carries the operation and the key passed in.  *)
C3_StatusDecides ==
    (Called /\ TextMessage /\ NoMappedCode) =>
        \A e \in StatusTable :
            StatusOf(error) = {e[1]} =>
                /\ Returned(e[2])
                /\ result.value.operation = operation
                /\ e[1] \in {429, 412, 416} =>
                     result.value.key = (IF key = {} THEN {""} ELSE key)
                /\ e[1] = 500 => result.value.key = key
                /\ e[1] = 429 =>
                     result.value =
                        [tag |-> "R2RateLimitError",
                         key |-> IF key = {} THEN {""} ELSE key,
                         operation |-> operation]

(* Status 429 with a message naming NoSuchBucket, on put of "counter".     *)
C3_Witness ==
    /\ Called /\ NoMappedCode /\ StatusOf(error) = {429}
    /\ error.message = Str("NoSuchBucket")
    /\ result = Return([tag |-> "R2RateLimitError", key |-> {"counter"},
                        operation |-> "put"])

----------------------------------------------------------------------------
(* C4, as stated: status 400, no recognized code and a message containing  *)
(* both "key" and "multipart" gives InvalidKey.                            *)
C4_KeyAndMultipart ==
    (/\ Called /\ NoMappedCode /\ StatusOf(error) = {400}
     /\ error.message.type = "string"
     /\ Includes(error.message.text, "key")
     /\ Includes(error.message.text, "multipart"))
        => Returned("R2InvalidKeyError")

(* C4, amended: status 400, no recognized code and a message containing    *)
(* "key" and "multipart" gives InvalidKey when the message also contains   *)
(* "empty" or "invalid" (the key group is tested before the multipart      *)
(* group); without "empty" and "invalid" it gives MetadataError when the   *)
(* message contains "metadata" or "Metadata", and MultipartError           *)
(* otherwise.                                                              *)
C4_KeyGroupBeforeMultipart ==
    (/\ Called /\ NoMappedCode /\ StatusOf(error) = {400}
     /\ error.message.type = "string"
     /\ Includes(error.message.text, "key")
     /\ Includes(error.message.text, "multipart"))
        => LET m == error.message.text
           IN  IF Includes(m, "empty") \/ Includes(m, "invalid")
               THEN Returned("R2InvalidKeyError")
               ELSE IF Includes(m, "metadata") \/ Includes(m, "Metadata")
               THEN Returned("R2MetadataError")
               ELSE Returned("R2MultipartError")

(* "key" and "multipart" without "empty" or "invalid": the multipart       *)
(* group decides, unless the metadata group, tested before it, matches.    *)
KeyAndMultipartAsMultipart ==
    /\ Called /\ NoMappedCode /\ StatusOf(error) = {400}
    /\ error.message = Str("multipart key missing")
    /\ Returned("R2MultipartError")

KeyAndMultipartAsMetadata ==
    /\ Called /\ NoMappedCode /\ StatusOf(error) = {400}
    /\ error.message = Str("metadata key multipart")
    /\ Returned("R2MetadataError")

C4_Witness ==
    /\ Called /\ NoMappedCode /\ StatusOf(error) = {400}
    /\ error.message = Str("key is empty and multipart")
    /\ Returned("R2InvalidKeyError")

----------------------------------------------------------------------------
(* C5: status 400, no recognized code and a message matching none of the   *)
(* keyword groups gives InvalidArgument carrying the operation, the key    *)
(* and the raw message as reason, never NetworkError.                      *)
C5_Generic400 ==
    (/\ Called /\ TextMessage /\ NoMappedCode /\ StatusOf(error) = {400}
     /\ \A i \in 1..Len(ListedGroups) : ~Matches(ListedGroups[i], RawText))
        => result = Return([tag |-> "R2InvalidArgumentError",
                            operation |-> operation, reason |-> RawText,
                            key |-> key])

C5_Witness ==
    /\ Called /\ NoMappedCode /\ StatusOf(error) = {400}
    /\ error.message = Str("AccessDenied") /\ key = {"counter"}
    /\ Returned("R2InvalidArgumentError")
    /\ result.value.reason = "AccessDenied"

----------------------------------------------------------------------------
(* C6: no recognized code, no recognized status and no matching keyword    *)
(* gives NetworkError whose cause is the raw failure itself, whose reason  *)
(* is the failure message, and whose operation and key are those passed.   *)
C6_Fallback ==
    (/\ Called /\ TextMessage /\ NoMappedCode
     /\ \A s \in StatusOf(error) : s \notin RecognizedStatuses
     /\ \A i \in 1..Len(ListedGroups) : ~Matches(ListedGroups[i], RawText))
        => result = Return([tag |-> "R2NetworkError", key |-> key,
                            operation |-> operation, reason |-> RawText,
                            cause |-> error])

C6_Witness ==
    /\ Called /\ CodeOf(error) = {} /\ StatusOf(error) = {599}
    /\ error.message = Str("Network timeout")
    /\ Returned("R2NetworkError")
    /\ result.value.cause = error
    /\ result.value.reason = "Network timeout"

----------------------------------------------------------------------------
(* C7, as stated: under status 400 with no recognized code the variant is  *)
(* that of the first of the nine listed groups the message matches.        *)
C7_NineGroupsUnder400 ==
    (/\ Called /\ NoMappedCode /\ StatusOf(error) = {400}
     /\ error.message.type = "string"
     /\ \E i \in 1..Len(ListedGroups) :
           Matches(ListedGroups[i], error.message.text))
        => Returned(FirstMatch(ListedGroups, error.message.text, "none"))

(* The groups case 400 tests, in its order. *)
Groups400 ==
    << KeyGroup, MetadataGroup, MultipartGroup, DigestGroup, TooLargeGroup,
       TooSmallGroup >>

(* C7, amended: under status 400 with no recognized code the variant is    *)
(* that of the first group the message matches among key, metadata,        *)
(* multipart, digest, too large and too small, in this order; the          *)
(* concurrency, NoSuchBucket and not-enabled keywords are not consulted,   *)
(* and a message matching none of the six groups gives InvalidArgument.    *)
(* A MultipartError carries the message as reason.                         *)
C7_SixGroupsUnder400 ==
    (/\ Called /\ NoMappedCode /\ StatusOf(error) = {400}
     /\ error.message.type = "string")
        => /\ Returned(FirstMatch(Groups400, error.message.text,
                                  "R2InvalidArgumentError"))
           /\ Returned("R2MultipartError") =>
                result.value = [tag |-> "R2MultipartError", key |-> key,
                                operation |-> operation,
                                reason |-> error.message.text]

(* Two groups co-occur (multipart and digest) and the earlier one wins. *)
C7_Witness ==
    /\ Called /\ NoMappedCode /\ StatusOf(error) = {400}
    /\ error.message = Str("multipart and digest")
    /\ operation = "uploadPart" /\ key = {}
    /\ result = Return([tag |-> "R2MultipartError", key |-> {},
                        operation |-> "uploadPart",
                        reason |-> "multipart and digest"])

(* The worked example: status 400, "multipart upload part invalid",        *)
(* operation uploadPart and no key. *)
WorkedExample400 ==
    /\ Called /\ CodeOf(error) = {} /\ StatusOf(error) = {400}
    /\ error.message = Str("multipart upload part invalid")
    /\ operation = "uploadPart" /\ key = {}
    /\ result = Return([tag |-> "R2MultipartError", key |-> {},
                        operation |-> "uploadPart",
                        reason |-> "multipart upload part invalid"])

----------------------------------------------------------------------------
(* No recognized code and no recognized status. *)
Unclassified ==
    /\ NoMappedCode
    /\ \A s \in StatusOf(error) : s \notin RecognizedStatuses

(* C8, as stated: when neither a code nor a status matched, the first of   *)
(* the nine listed groups the message matches decides the variant, and     *)
(* NetworkError is returned only when no group matches.                    *)
C8_NineGroupsCatchAll ==
    (Called /\ TextMessage /\ Unclassified)
        => Returned(FirstMatch(ListedGroups, RawText, "R2NetworkError"))

(* The groups the message-based detection tests, in its order. *)
GroupsCatchAll == << BucketGroup, NotEnabledGroup, ConcurrencyGroup >>

(* C8, amended: when neither a code nor a status matched, the message is   *)
(* scanned for three groups only, in this order: NoSuchBucket, then        *)
(* Please enable / not entitled, then TooMuchConcurrency / concurrency;    *)
(* the first matching group decides the variant and NetworkError is        *)
(* returned when none of the three matches.                                *)
C8_ThreeGroupsCatchAll ==
    (Called /\ TextMessage /\ Unclassified)
        => Returned(FirstMatch(GroupsCatchAll, RawText, "R2NetworkError"))

(* Status 413 and a message naming both concurrency and NoSuchBucket. *)
C8_Witness ==
    /\ Called /\ NoMappedCode /\ StatusOf(error) = {413}
    /\ error.message = Str("concurrency and NoSuchBucket")
    /\ Returned("R2BucketNotFoundError")

----------------------------------------------------------------------------
(* The entries of the rule-1 table as the specification lists them. *)
ListedEntries ==
    { "R2RateLimitError", "R2ObjectTooLargeError", "R2ObjectTooSmallError",
      "R2MetadataError", "R2InvalidKeyError", "R2InvalidMaxKeysError",
      "R2MultipartError", "R2InvalidArgumentError",
      "R2PreconditionFailedError", "R2BadDigestError", "R2InvalidRangeError",
      "R2BucketNotFoundError", "R2NotEnabledError" }

(* The code c decides variant t: a failure carrying c and nothing else is  *)
(* classified as t. *)
CodeDecides(c, t) ==
    mapError(Object({c}, {}, Str("")), operation, key).kind = "return" /\
    mapError(Object({c}, {}, Str("")), operation, key).value.tag = t

(* C9, as stated: every entry of the listed table, rate-limit included,    *)
(* has a provider code that mapError maps to the entry's variant.          *)
C9_EveryEntryHasCode ==
    Called =>
        \A t \in ListedEntries :
            \E c \in MappedCodes \cup UnmappedCodes : CodeDecides(c, t)

(* C9, amended: every entry of the list except rate-limit has a provider   *)
(* code that mapError recognizes and maps to the entry's variant (the      *)
(* codes of CodeTable, each code giving one variant); no provider code     *)
(* gives RateLimited, which is produced by status 429 alone; code 10001    *)
(* (InternalError) is a further entry of the table.                        *)
C9_LookupTable ==
    (Called /\ TextMessage) =>
        /\ \A t \in ListedEntries \ {"R2RateLimitError"} :
               \E e \in CodeTable : e[2] = t
        /\ \A e \in CodeTable : CodeOf(error) = {e[1]} => Returned(e[2])
        /\ Returned("R2RateLimitError") =>
               (NoMappedCode /\ StatusOf(error) = {429})

(* The too-small code, with a status and a message that name other         *)
(* variants. *)
C9_Witness ==
    /\ Called /\ CodeOf(error) = {10011} /\ StatusOf(error) = {429}
    /\ error.message = Str("too large")
    /\ Returned("R2ObjectTooSmallError")

----------------------------------------------------------------------------
(* The facade, make(bucket), env.ts lines 1654-1830: head, get and put.    *)
(* A call first issues the provider call (HeadCall, GetCall, PutCall) and *)
(* is settled when the provider's promise settles (Settle); calls         *)
(* interleave freely.                                                      *)

MaxCalls == 2

BucketKeys == { "", "counter" }

(* What the provider resolves to when it resolves to an object. *)
ProviderValues == { "objectA", "objectB" }

(* What the provider rejects with. *)
ProviderFailures ==
    { Object({}, {403}, Str("AccessDenied")),
      Object({}, {412}, Str("precondition")),
      Object({PRECONDITION_FAILED}, {}, Str("precondition")),
      Object({}, {}, Str("Network timeout")),
      Object({}, {400}, Num("42")),
      Object({}, {}, Num("42")) }

ProviderResponses ==
    { [kind |-> "null"] } \cup
    { [kind |-> "value", value |-> v] : v \in ProviderValues } \cup
    { [kind |-> "raise", error |-> f] : f \in ProviderFailures }

Pending == [kind |-> "pending"]

(* result === null ? Option.none() : Option.some(result) *)
OptionOf(response) ==
    IF response.kind = "null"
    THEN [kind |-> "none"]
    ELSE [kind |-> "some", value |-> response.value]

(* Effect.tryPromise({ try, catch }): the value of try on success; on a    *)
(* rejection the failure catch returns, or a defect when catch throws.     *)
tryPromise(response, operation_, key_) ==
    IF response.kind = "raise"
    THEN LET mapped == mapError(response.error, operation_, key_)
         IN  IF mapped.kind = "return"
             THEN [kind |-> "fail", error |-> mapped.value]
             ELSE [kind |-> "die", defect |-> mapped.exception]
    ELSE OptionOf(response)

(* head, env.ts lines 1656-1665. *)
head(key_, response) == tryPromise(response, "head", {key_})

(* get, env.ts lines 1667-1699: without options, then with options. *)
get(key_, options, response) ==
    IF ~options
    THEN tryPromise(response, "get", {key_})
    ELSE tryPromise(response, "get", {key_})

(* put, env.ts lines 1701-1746. *)
put(key_, response) == tryPromise(response, "put", {key_})

(* A call of a method of the provider, made by the run with id call. *)
ProviderCall(call, method) == [call |-> call, method |-> method]

PendingCall(op, k, options) ==
    [op |-> op, key |-> k, options |-> options, state |-> "pending",
     response |-> Pending, outcome |-> Pending]

(* head(key) is run: bucket.head(key) is issued. *)
HeadCall ==
    /\ Len(calls) < MaxCalls
    /\ \E k \in BucketKeys :
          /\ calls' = Append(calls, PendingCall("head", k, FALSE))
          /\ providerCalls' =
                Append(providerCalls, ProviderCall(Len(calls) + 1, "head"))
    /\ UNCHANGED <<error, operation, key, result, env, effectEnv,
                   instances, classified>>

(* get(key, options?) is run: bucket.get(key[, options]) is issued. *)
GetCall ==
    /\ Len(calls) < MaxCalls
    /\ \E k \in BucketKeys, options \in BOOLEAN :
          /\ calls' = Append(calls, PendingCall("get", k, options))
          /\ providerCalls' =
                Append(providerCalls, ProviderCall(Len(calls) + 1, "get"))
    /\ UNCHANGED <<error, operation, key, result, env, effectEnv,
                   instances, classified>>

(* put(key, value, options?) is run: bucket.put(...) is issued. *)
PutCall ==
    /\ Len(calls) < MaxCalls
    /\ \E k \in BucketKeys :
          /\ calls' = Append(calls, PendingCall("put", k, FALSE))
          /\ providerCalls' =
                Append(providerCalls, ProviderCall(Len(calls) + 1, "put"))
    /\ UNCHANGED <<error, operation, key, result, env, effectEnv,
                   instances, classified>>

Converted(call, response) ==
    CASE call.op = "head" -> head(call.key, response)
      [] call.op = "get" -> get(call.key, call.options, response)
      [] call.op = "put" -> put(call.key, response)

(* An alternative facade that serialises its calls: a call's continuation *)
(* runs only when every earlier call has ended.                           *)
Settle_InOrder ==
    \E i \in DOMAIN calls, response \in ProviderResponses :
        /\ calls[i].state = "pending"
        /\ \A j \in 1..(i - 1) : calls[j].state = "done"
        /\ calls[i].op \in {"head", "get", "put"}
        /\ calls' =
             [calls EXCEPT ![i] =
                [op |-> calls[i].op, key |-> calls[i].key,
                 options |-> calls[i].options, state |-> "done",
                 response |-> response,
                 outcome |-> Converted(calls[i], response)]]
        /\ UNCHANGED <<error, operation, key, result, providerCalls,
                       env, effectEnv, instances, classified>>

(* The provider's promise of a pending call settles and the facade's     *)
(* continuation converts it.                                             *)
Settle ==
    \E i \in DOMAIN calls, response \in ProviderResponses :
        /\ calls[i].state = "pending"
        /\ calls[i].op \in {"head", "get", "put"}
        /\ calls' =
             [calls EXCEPT ![i] =
                [op |-> calls[i].op, key |-> calls[i].key,
                 options |-> calls[i].options, state |-> "done",
                 response |-> response,
                 outcome |-> Converted(calls[i], response)]]
        /\ UNCHANGED <<error, operation, key, result, providerCalls,
                       env, effectEnv,
                   instances, classified>>

Init ==
    /\ error = Object({}, {}, Undefined)
    /\ operation = "head"
    /\ key = {}
    /\ result = NotCalled
    /\ calls = <<>>
    /\ providerCalls = <<>>
    /\ env = <<>>
    /\ effectEnv = NotCalled
    /\ instances = <<>>
    /\ classified = <<>>

Next == HeadCall \/ GetCall \/ PutCall \/ Settle

Spec == Init /\ [][Next]_vars

----------------------------------------------------------------------------
(* C10: tri-state result of head, get and put.  A call whose provider call *)
(* resolved to the sentinel ends as an absent optional, one that resolved  *)
(* to a value ends as a present optional holding that value, and one that  *)
(* raised ends as a typed error of the R2BucketError union.  Stated as the *)
(* claim; the code violates the third case when mapError itself throws.    *)
C10_TriState ==
    \A i \in DOMAIN calls :
        calls[i].state = "done" =>
            /\ calls[i].response.kind = "null" =>
                 calls[i].outcome = [kind |-> "none"]
            /\ calls[i].response.kind = "value" =>
                 calls[i].outcome =
                    [kind |-> "some", value |-> calls[i].response.value]
            /\ calls[i].response.kind = "raise" =>
                 /\ calls[i].outcome.kind = "fail"
                 /\ calls[i].outcome.error.tag \in R2BucketError

----------------------------------------------------------------------------
(* C11: no head, get or put call ever ends in a PreconditionFailed error,  *)
(* whatever the provider does.  Stated as the claim; the code violates it  *)
(* when the provider raises a failure with status 412 or code 10031, which *)
(* mapError classifies as PreconditionFailed for every operation.          *)
C11_NeverPreconditionFailed ==
    \A i \in DOMAIN calls :
        (calls[i].state = "done" /\ calls[i].op \in {"head", "get", "put"})
            => ~ ( /\ calls[i].outcome.kind = "fail"
                   /\ calls[i].outcome.error.tag = "R2PreconditionFailedError" )

----------------------------------------------------------------------------
(* The whole facade: delete, list, createMultipartUpload,                  *)
(* resumeMultipartUpload (env.ts lines 1748-1828) and the session made by  *)
(* wrapMultipartUpload (env.ts lines 1614-1648), next to head, get, put.   *)

UploadIds == { "upload-1" }

(* The keys argument of delete: one key or an array of keys. *)
OneKey(k) == [type |-> "string", value |-> k, items |-> <<>>]
KeyArray(ks) == [type |-> "array", value |-> "", items |-> ks]

DeleteKeys ==
    { OneKey("counter"), KeyArray(<<>>), KeyArray(<<"counter">>),
      KeyArray(<<"other", "counter">>) }

(* What the provider rejects with in the calls below. *)
FacadeFailures ==
    { Object({}, {429}, Undefined),
      Object({}, {}, Str("TooMuchConcurrency")),
      Object({NO_SUCH_UPLOAD}, {}, Str("NoSuchUpload")),
      Object({ENTITY_TOO_SMALL}, {}, Str("EntityTooSmall")),
      Object({}, {400}, Num("42")) }

Raise(f) == [kind |-> "raise", error |-> f]
Resolve(v) == [kind |-> "value", value |-> v]
ResolveNull == [kind |-> "null"]

Void == "undefined"
Null == "null"

(* A native upload, a part confirmation and a listing of the provider;    *)
(* native holds what the facade does not copy.                            *)
NativeUpload(k, id) == [key |-> k, uploadId |-> id, native |-> TRUE]

NativeParts ==
    { [partNumber |-> n, etag |-> e, native |-> TRUE] :
        n \in {1, 2}, e \in {"etag-a"} }

NativeListings ==
    { [objects |-> <<"objectA">>, truncated |-> FALSE, cursor |-> {},
       delimitedPrefixes |-> <<>>, native |-> TRUE],
      [objects |-> <<"objectA">>, truncated |-> TRUE, cursor |-> {"cursor-1"},
       delimitedPrefixes |-> <<"a/">>, native |-> TRUE] }

(* The TypeError of reading a property of null inside a try block; its    *)
(* message names the property read.                                       *)
NullRead(property) ==
    Object({}, {},
           Str("Cannot read properties of null (reading '" \o property
                   \o "')"))

(* The catch of Effect.tryPromise: the error mapError returns is the      *)
(* failure of the effect; when mapError throws, the effect dies.          *)
Caught(error_, operation_, key_) ==
    LET mapped == mapError(error_, operation_, key_)
    IN  IF mapped.kind = "return"
        THEN [kind |-> "fail", error |-> mapped.value]
        ELSE [kind |-> "die", defect |-> mapped.exception]

Succeed(v) == [kind |-> "success", value |-> v]

(* Mutant: the last key of the array instead of the first. *)
DeleteKey_LastKey(keys) ==
    IF keys.type = "string" THEN {keys.value}
    ELSE IF Len(keys.items) = 0 THEN {} ELSE {keys.items[Len(keys.items)]}

(* typeof keys === "string" ? keys : keys[0] *)
DeleteKey(keys) ==
    IF keys.type = "string" THEN {keys.value}
    ELSE IF Len(keys.items) = 0 THEN {} ELSE {keys.items[1]}

(* delete, env.ts lines 1748-1755. *)
delete(keys, response) ==
    IF response.kind = "raise"
    THEN Caught(response.error, "delete", DeleteKey(keys))
    ELSE Succeed(Void)

(* list, env.ts lines 1757-1797. *)
list(response) ==
    CASE response.kind = "raise" -> Caught(response.error, "list", {})
      [] response.kind = "null" -> Caught(NullRead("objects"), "list", {})
      [] response.kind = "value" ->
            Succeed([objects |-> response.value.objects,
                     truncated |-> response.value.truncated,
                     cursor |-> response.value.cursor,
                     delimitedPrefixes |-> response.value.delimitedPrefixes])

(* wrapMultipartUpload, env.ts lines 1614-1648: the two identifiers; its  *)
(* three methods are uploadPart, complete and abort below.                *)
wrapMultipartUpload(upload) ==
    [key |-> upload.key, uploadId |-> upload.uploadId]

(* createMultipartUpload, env.ts lines 1799-1823. *)
createMultipartUpload(key_, response) ==
    CASE response.kind = "raise" ->
            Caught(response.error, "createMultipartUpload", {key_})
      [] response.kind = "null" ->
            Caught(NullRead("key"), "createMultipartUpload", {key_})
      [] response.kind = "value" ->
            Succeed(wrapMultipartUpload(response.value))

(* resumeMultipartUpload, env.ts lines 1825-1828: a synchronous call with *)
(* no try around it; what the provider throws is thrown to the caller.    *)
resumeMultipartUpload(key_, uploadId, response) ==
    IF response.kind = "raise"
    THEN [kind |-> "throw", exception |-> response.error]
    ELSE [kind |-> "return", value |-> wrapMultipartUpload(response.value)]

(* Mutant: the confirmation repeats the part number that was asked for. *)
uploadPart_RequestedNumber(upload, partNumber, response) ==
    CASE response.kind = "raise" ->
            Caught(response.error, "uploadPart", {upload.key})
      [] response.kind = "null" ->
            Caught(NullRead("partNumber"), "uploadPart", {upload.key})
      [] response.kind = "value" ->
            Succeed([partNumber |-> partNumber,
                     etag |-> response.value.etag])

(* uploadPart, env.ts lines 1620-1630. *)
uploadPart(upload, partNumber, response) ==
    CASE response.kind = "raise" ->
            Caught(response.error, "uploadPart", {upload.key})
      [] response.kind = "null" ->
            Caught(NullRead("partNumber"), "uploadPart", {upload.key})
      [] response.kind = "value" ->
            Succeed([partNumber |-> response.value.partNumber,
                     etag |-> response.value.etag])

(* complete, env.ts lines 1631-1639. *)
complete(upload, uploadedParts, response) ==
    CASE response.kind = "raise" ->
            Caught(response.error, "completeMultipartUpload", {upload.key})
      [] response.kind = "null" -> Succeed(Null)
      [] response.kind = "value" -> Succeed(response.value)

(* abort, env.ts lines 1640-1646. *)
abort(upload, response) ==
    IF response.kind = "raise"
    THEN Caught(response.error, "abortMultipartUpload", {upload.key})
    ELSE Succeed(Void)

PendingRun(op, args) ==
    [op |-> op, args |-> args, state |-> "pending", response |-> Pending,
     outcome |-> Pending]

Raises == { Raise(f) : f \in FacadeFailures }

(* The wrappers the caller holds: results of createMultipartUpload and of *)
(* resumeMultipartUpload.                                                 *)
ObtainedSessions ==
    { calls[i].outcome.value :
        i \in { j \in DOMAIN calls :
                  /\ calls[j].op \in {"createMultipartUpload",
                                      "resumeMultipartUpload"}
                  /\ calls[j].outcome.kind \in {"success", "return"} } }

(* The part confirmations a caller may pass to complete. *)
PartLists ==
    { <<>>, <<[partNumber |-> 1, etag |-> "etag-a"]>> }

(* A run of an operation issues the call of the provider's method. *)
Issued(op, args) == Append(calls, PendingRun(op, args))
Logged(method) ==
    Append(providerCalls, ProviderCall(Len(calls) + 1, method))

DeleteCall ==
    /\ Len(calls) < MaxCalls
    /\ \E keys \in DeleteKeys : calls' = Issued("delete", [keys |-> keys])
    /\ providerCalls' = Logged("delete")
    /\ UNCHANGED <<error, operation, key, result, env, effectEnv,
                   instances, classified>>

ListCall ==
    /\ Len(calls) < MaxCalls
    /\ \E options \in BOOLEAN :
          calls' = Issued("list", [options |-> options])
    /\ providerCalls' = Logged("list")
    /\ UNCHANGED <<error, operation, key, result, env, effectEnv,
                   instances, classified>>

CreateMultipartUploadCall ==
    /\ Len(calls) < MaxCalls
    /\ \E k \in {"counter"} :
          calls' = Issued("createMultipartUpload", [key |-> k])
    /\ providerCalls' = Logged("createMultipartUpload")
    /\ UNCHANGED <<error, operation, key, result, env, effectEnv,
                   instances, classified>>

UploadPartCall ==
    /\ Len(calls) < MaxCalls
    /\ \E upload \in ObtainedSessions, n \in {1} :
          calls' = Issued("uploadPart",
                          [upload |-> upload, partNumber |-> n])
    /\ providerCalls' = Logged("uploadPart")
    /\ UNCHANGED <<error, operation, key, result, env, effectEnv,
                   instances, classified>>

CompleteCall ==
    /\ Len(calls) < MaxCalls
    /\ \E upload \in ObtainedSessions, parts \in PartLists :
          calls' = Issued("completeMultipartUpload",
                          [upload |-> upload, uploadedParts |-> parts])
    /\ providerCalls' = Logged("complete")
    /\ UNCHANGED <<error, operation, key, result, env, effectEnv,
                   instances, classified>>

AbortCall ==
    /\ Len(calls) < MaxCalls
    /\ \E upload \in ObtainedSessions :
          calls' = Issued("abortMultipartUpload", [upload |-> upload])
    /\ providerCalls' = Logged("abort")
    /\ UNCHANGED <<error, operation, key, result, env, effectEnv,
                   instances, classified>>

(* resumeMultipartUpload runs to its end in one step: the provider's      *)
(* method is synchronous.                                                 *)
ResumeMultipartUploadCall ==
    /\ Len(calls) < MaxCalls
    /\ \E k \in {"counter"}, id \in UploadIds :
        \E response \in {Resolve(NativeUpload(k, id))} \cup Raises :
          calls' =
            Append(calls,
                   [op |-> "resumeMultipartUpload",
                    args |-> [key |-> k, uploadId |-> id],
                    state |-> "done", response |-> response,
                    outcome |-> resumeMultipartUpload(k, id, response)])
    /\ providerCalls' = Logged("resumeMultipartUpload")
    /\ UNCHANGED <<error, operation, key, result, env, effectEnv,
                   instances, classified>>

(* What the provider's promise may settle to, per method. *)
ResponsesOf(call) ==
    CASE call.op = "delete" -> {Resolve(Void)} \cup Raises
      [] call.op = "list" ->
            {ResolveNull} \cup {Resolve(l) : l \in NativeListings} \cup Raises
      [] call.op = "createMultipartUpload" ->
            {ResolveNull} \cup Raises \cup
            {Resolve(NativeUpload(call.args.key, id)) : id \in UploadIds}
      [] call.op = "uploadPart" ->
            {ResolveNull} \cup {Resolve(part) : part \in NativeParts}
                \cup Raises
      [] call.op = "completeMultipartUpload" ->
            {ResolveNull, Resolve("objectA")} \cup Raises
      [] call.op = "abortMultipartUpload" -> {Resolve(Void)} \cup Raises

ConvertedRun(call, response) ==
    CASE call.op = "delete" -> delete(call.args.keys, response)
      [] call.op = "list" -> list(response)
      [] call.op = "createMultipartUpload" ->
            createMultipartUpload(call.args.key, response)
      [] call.op = "uploadPart" ->
            uploadPart(call.args.upload, call.args.partNumber, response)
      [] call.op = "completeMultipartUpload" ->
            complete(call.args.upload, call.args.uploadedParts, response)
      [] call.op = "abortMultipartUpload" ->
            abort(call.args.upload, response)

AsyncRunOps ==
    { "delete", "list", "createMultipartUpload", "uploadPart",
      "completeMultipartUpload", "abortMultipartUpload" }

(* Mutant: a run whose provider call was rejected with status 429 calls   *)
(* the provider's method again instead of reporting the rejection.        *)
SettleRun_Retry ==
    \E i \in DOMAIN calls :
        /\ calls[i].state = "pending"
        /\ calls[i].op \in AsyncRunOps
        /\ \E response \in ResponsesOf(calls[i]) :
              IF response.kind = "raise" /\ response.error.status = {429}
              THEN /\ Len(providerCalls) < MaxCalls + 1
                   /\ providerCalls' =
                         Append(providerCalls,
                                providerCalls[CHOOSE n \in DOMAIN providerCalls :
                                                providerCalls[n].call = i])
                   /\ UNCHANGED calls
              ELSE /\ calls' =
                        [calls EXCEPT ![i] =
                           [op |-> calls[i].op, args |-> calls[i].args,
                            state |-> "done", response |-> response,
                            outcome |-> ConvertedRun(calls[i], response)]]
                   /\ UNCHANGED providerCalls
        /\ UNCHANGED <<error, operation, key, result, env, effectEnv,
                   instances, classified>>

(* The provider's promise of a pending run settles and the continuation of *)
(* the run converts it.                                                    *)
SettleRun ==
    \E i \in DOMAIN calls :
        /\ calls[i].state = "pending"
        /\ calls[i].op \in AsyncRunOps
        /\ \E response \in ResponsesOf(calls[i]) :
              calls' =
                [calls EXCEPT ![i] =
                   [op |-> calls[i].op, args |-> calls[i].args,
                    state |-> "done", response |-> response,
                    outcome |-> ConvertedRun(calls[i], response)]]
        /\ UNCHANGED <<error, operation, key, result, providerCalls,
                       env, effectEnv,
                   instances, classified>>

(* Every rejection the provider has answered with is one of failures. *)
RejectedWith(failures) ==
    \A i \in DOMAIN calls :
        calls[i].response.kind = "raise" =>
            calls[i].response.error \in failures

NextFacade ==
    \/ HeadCall \/ GetCall \/ PutCall \/ Settle
    \/ DeleteCall \/ ListCall \/ CreateMultipartUploadCall
    \/ ResumeMultipartUploadCall
    \/ UploadPartCall \/ CompleteCall \/ AbortCall
    \/ SettleRun

SpecFacade == Init /\ [][NextFacade]_vars

----------------------------------------------------------------------------
(* C12: no raw failure escapes the facade.  Every run whose provider call  *)
(* raised, synchronously or asynchronously, ends in a typed error of the   *)
(* R2BucketError union on the error channel, never in a thrown exception   *)
(* or a defect.  Stated as the claim; the code violates it for             *)
(* resumeMultipartUpload, which has no try around the provider call.       *)
C12_NoRawFailureEscapes ==
    \A i \in DOMAIN calls :
        (calls[i].state = "done" /\ calls[i].response.kind = "raise")
            => /\ calls[i].outcome.kind = "fail"
               /\ calls[i].outcome.error.tag \in R2BucketError

(* The part of C12 that fails independently of mapError: a run of          *)
(* resumeMultipartUpload whose provider call raised a failure that         *)
(* mapError classifies (status 429) throws that failure as it is.          *)
ResumeThrowsRaw ==
    \E i \in DOMAIN calls :
        /\ calls[i].op = "resumeMultipartUpload"
        /\ calls[i].response = Raise(Object({}, {429}, Undefined))
        /\ calls[i].outcome =
              [kind |-> "throw", exception |-> Object({}, {429}, Undefined)]

----------------------------------------------------------------------------
(* SpecSession: one multipart upload of the provider and the wrappers of   *)
(* it the caller holds, one from createMultipartUpload and one from        *)
(* resumeMultipartUpload with the same key and uploadId.  The caller       *)
(* awaits each call before making the next.  The wrapper keeps nothing but *)
(* key and uploadId; what the provider answers is the provider's choice.   *)

MaxSessionCalls == 3

TheUpload == NativeUpload("counter", "upload-1")

Wrappers == { "created", "resumed" }

Confirmation(n) == [partNumber |-> n, etag |-> "etag-a"]

SessionPartLists ==
    { <<Confirmation(1), Confirmation(2)>>, <<Confirmation(1)>>,
      <<Confirmation(1), Confirmation(1)>> }

Awaited == \A i \in DOMAIN calls : calls[i].state = "done"

SessionUploadPart ==
    /\ Len(calls) < MaxSessionCalls /\ Awaited
    /\ \E via \in Wrappers, n \in {1, 2} :
          calls' = Issued("uploadPart",
                          [upload |-> wrapMultipartUpload(TheUpload),
                           partNumber |-> n, via |-> via])
    /\ providerCalls' = Logged("uploadPart")
    /\ UNCHANGED <<error, operation, key, result, env, effectEnv,
                   instances, classified>>

SessionComplete ==
    /\ Len(calls) < MaxSessionCalls /\ Awaited
    /\ \E via \in Wrappers, parts \in SessionPartLists :
          calls' = Issued("completeMultipartUpload",
                          [upload |-> wrapMultipartUpload(TheUpload),
                           uploadedParts |-> parts, via |-> via])
    /\ providerCalls' = Logged("complete")
    /\ UNCHANGED <<error, operation, key, result, env, effectEnv,
                   instances, classified>>

SessionAbort ==
    /\ Len(calls) < MaxSessionCalls /\ Awaited
    /\ \E via \in Wrappers :
          calls' = Issued("abortMultipartUpload",
                          [upload |-> wrapMultipartUpload(TheUpload),
                           via |-> via])
    /\ providerCalls' = Logged("abort")
    /\ UNCHANGED <<error, operation, key, result, env, effectEnv,
                   instances, classified>>

NextSession ==
    SessionUploadPart \/ SessionComplete \/ SessionAbort \/ SettleRun

SpecSession == Init /\ [][NextSession]_vars

(* Vocabulary of the session claims. *)
Succeeded(i) == calls[i].state = "done" /\ calls[i].outcome.kind = "success"

FailedWith(i, t) ==
    /\ calls[i].state = "done"
    /\ calls[i].outcome.kind = "fail"
    /\ calls[i].outcome.error.tag = t

UploadedBefore(i) ==
    { calls[j].args.partNumber :
        j \in { h \in 1..(i - 1) :
                  calls[h].op = "uploadPart" /\ Succeeded(h) } }

PartNumbersOf(parts) == { parts[n].partNumber : n \in DOMAIN parts }

Omits(i) ==
    \E n \in UploadedBefore(i) :
        n \notin PartNumbersOf(calls[i].args.uploadedParts)

Repeats(parts) ==
    \E m, n \in DOMAIN parts :
        m # n /\ parts[m].partNumber = parts[n].partNumber

(* C13: multipart completeness.  After successful uploadPart calls, a      *)
(* complete whose confirmation records omit an uploaded part number or     *)
(* hold a part number twice fails with MultipartError and returns no       *)
(* object.  Stated as the claim; the code violates it, since complete      *)
(* hands the records to the provider unchecked and returns what the        *)
(* provider resolves to.                                                   *)
C13_CompleteRejectsIncomplete ==
    \A i \in DOMAIN calls :
        ( /\ calls[i].op = "completeMultipartUpload"
          /\ calls[i].state = "done"
          /\ UploadedBefore(i) # {}
          /\ Omits(i) \/ Repeats(calls[i].args.uploadedParts) )
            => FailedWith(i, "R2MultipartError")

(* C14: Completed and Aborted are terminal.  After a complete or an abort  *)
(* on the session has succeeded, every later uploadPart, complete or abort *)
(* on it, through either wrapper, fails with MultipartError.  Stated as    *)
(* the claim; the code violates it, since the wrapper keeps no state and   *)
(* reports what the provider answers.                                      *)
C14_TerminalStates ==
    \A i, j \in DOMAIN calls :
        ( /\ i < j
          /\ calls[i].op \in {"completeMultipartUpload",
                              "abortMultipartUpload"}
          /\ Succeeded(i)
          /\ calls[j].state = "done" )
            => FailedWith(j, "R2MultipartError")

----------------------------------------------------------------------------
(* Vocabulary of the claims about the whole facade. *)
Done(i) == calls[i].state = "done"

Failed(i) == Done(i) /\ calls[i].outcome.kind = "fail"

(* The provider raised a failure whose message is a string or is missing. *)
RaisedText(i) ==
    /\ Done(i)
    /\ calls[i].response.kind = "raise"
    /\ calls[i].response.error.message.type \in {"string", "undefined"}

HasKey(e) == "key" \in DOMAIN e

(* C15, as stated: uploadPart returns the provider's partNumber and etag   *)
(* on success, and on failure fails with MultipartError, ObjectTooSmall or *)
(* ObjectTooLarge carrying the session key and the operation uploadPart.   *)
C15_UploadPartThreeVariants ==
    \A i \in DOMAIN calls :
        (calls[i].op = "uploadPart" /\ Done(i)) =>
            /\ calls[i].response.kind = "value" =>
                 calls[i].outcome =
                    Succeed([partNumber |-> calls[i].response.value.partNumber,
                             etag |-> calls[i].response.value.etag])
            /\ calls[i].response.kind = "raise" =>
                 /\ Failed(i)
                 /\ calls[i].outcome.error.tag \in
                       {"R2MultipartError", "R2ObjectTooSmallError",
                        "R2ObjectTooLargeError"}
                 /\ calls[i].outcome.error.key = {calls[i].args.upload.key}
                 /\ calls[i].outcome.error.operation = "uploadPart"

(* C15, amended: on success the confirmation is exactly the partNumber and *)
(* etag the provider returned; a failure raised with a text message is     *)
(* whatever variant the cascade gives it (MultipartError for code 10024,   *)
(* ObjectTooSmall for code 10011, but also RateLimited for status 429 and  *)
(* TooMuchConcurrency for that keyword), with operation uploadPart and,    *)
(* where the variant has a key, the session key.                           *)
C15_UploadPartCascade ==
    \A i \in DOMAIN calls :
        (calls[i].op = "uploadPart" /\ Done(i)) =>
            /\ calls[i].response.kind = "value" =>
                 calls[i].outcome =
                    Succeed([partNumber |-> calls[i].response.value.partNumber,
                             etag |-> calls[i].response.value.etag])
            /\ RaisedText(i) =>
                 LET f == calls[i].response.error
                     e == calls[i].outcome.error
                 IN  /\ Failed(i)
                     /\ e.tag \in R2BucketError
                     /\ e.operation = "uploadPart"
                     /\ HasKey(e) => e.key = {calls[i].args.upload.key}
                     /\ f.code = {10024} => e.tag = "R2MultipartError"
                     /\ f.code = {10011} => e.tag = "R2ObjectTooSmallError"
                     /\ (f.code = {} /\ f.status = {429}) =>
                          e.tag = "R2RateLimitError"
                     /\ (f.code = {} /\ f.status = {}
                           /\ f.message = Str("TooMuchConcurrency")) =>
                          e.tag = "R2ConcurrencyError"

(* An uploadPart on the session of key "counter" whose provider call was  *)
(* rejected with status 429: the run fails with RateLimited.               *)
C15_Witness ==
    \E i \in DOMAIN calls :
        /\ calls[i].op = "uploadPart"
        /\ calls[i].response = Raise(Object({}, {429}, Undefined))
        /\ calls[i].outcome =
              [kind |-> "fail",
               error |-> [tag |-> "R2RateLimitError", key |-> {"counter"},
                          operation |-> "uploadPart"]]

(* An uploadPart of part 1 whose provider call confirmed part 2.           *)
UploadPartConfirmsProviderNumber ==
    \E i \in DOMAIN calls :
        /\ calls[i].op = "uploadPart"
        /\ calls[i].args.partNumber = 1
        /\ calls[i].outcome = Succeed([partNumber |-> 2, etag |-> "etag-a"])

----------------------------------------------------------------------------
(* The provider's method behind each operation of the facade. *)
ProviderMethod(op) ==
    CASE op = "completeMultipartUpload" -> "complete"
      [] op = "abortMultipartUpload" -> "abort"
      [] OTHER -> op

ProviderCallsOf(i) ==
    { n \in DOMAIN providerCalls : providerCalls[n].call = i }

(* C16: the facade never retries, queues or coalesces.  Every run has      *)
(* exactly one call of the provider's corresponding method, whether it is  *)
(* still pending or has ended and whatever the call returned or raised,    *)
(* the provider received no other call, and a run whose call was rejected  *)
(* as rate limited or as too much concurrency ends with that error.        *)
C16_OneProviderCall ==
    /\ Len(providerCalls) = Len(calls)
    /\ \A i \in DOMAIN calls :
          /\ Cardinality(ProviderCallsOf(i)) = 1
          /\ \A n \in ProviderCallsOf(i) :
                providerCalls[n].method = ProviderMethod(calls[i].op)
          /\ ( /\ Done(i)
               /\ calls[i].op # "resumeMultipartUpload"
               /\ calls[i].response = Raise(Object({}, {429}, Undefined)) )
                => /\ Failed(i)
                   /\ calls[i].outcome.error.tag = "R2RateLimitError"
          /\ ( /\ Done(i)
               /\ calls[i].op # "resumeMultipartUpload"
               /\ calls[i].response =
                     Raise(Object({}, {}, Str("TooMuchConcurrency"))) )
                => /\ Failed(i)
                   /\ calls[i].outcome.error.tag = "R2ConcurrencyError"

(* Two deletes, both rejected with status 429: two runs ended in           *)
(* RateLimited and the provider received exactly two calls of delete.      *)
C16_Witness ==
    /\ Len(calls) = 2 /\ Len(providerCalls) = 2
    /\ \A i \in {1, 2} :
          /\ calls[i].op = "delete"
          /\ calls[i].response = Raise(Object({}, {429}, Undefined))
          /\ calls[i].outcome.kind = "fail"
          /\ calls[i].outcome.error.tag = "R2RateLimitError"
          /\ providerCalls[i] = ProviderCall(i, "delete")

----------------------------------------------------------------------------
(* The key a delete request is attributed to: the key itself, the first    *)
(* key of an array, none for an empty array.                               *)
AttributedKey(keys) ==
    IF keys.type = "string" THEN {keys.value}
    ELSE IF keys.items = <<>> THEN {} ELSE {Head(keys.items)}

(* C17: a delete whose provider call fails is classified with operation    *)
(* delete and with the single key, the first key of the array, or no key   *)
(* for an empty array: the error is the variant the cascade returns for    *)
(* those arguments, so a variant with an optional key carries exactly that *)
(* key (none for the empty array) and a variant with a mandatory key       *)
(* carries it or, when there is none, the empty string.                    *)
C17_DeleteAttribution ==
    \A i \in DOMAIN calls :
        (calls[i].op = "delete" /\ RaisedText(i)) =>
            LET k == AttributedKey(calls[i].args.keys)
                e == calls[i].outcome.error
            IN  /\ Failed(i)
                /\ Return(e) = mapError(calls[i].response.error, "delete", k)
                /\ e.operation = "delete"
                /\ e.tag \in {"R2ConcurrencyError", "R2MultipartError"} =>
                     e.key = k
                /\ e.tag \in {"R2RateLimitError", "R2ObjectTooSmallError"} =>
                     e.key = {KeyOrEmpty(k)}

(* A delete of the keys "other" and "counter" rejected for too much        *)
(* concurrency: the error carries "other" alone.                           *)
C17_Witness ==
    \E i \in DOMAIN calls :
        /\ calls[i].op = "delete"
        /\ calls[i].args.keys = KeyArray(<<"other", "counter">>)
        /\ calls[i].response = Raise(Object({}, {}, Str("TooMuchConcurrency")))
        /\ calls[i].outcome =
              [kind |-> "fail",
               error |-> [tag |-> "R2ConcurrencyError", key |-> {"other"},
                          operation |-> "delete",
                          reason |-> "TooMuchConcurrency"]]

(* A delete of the empty array rejected for too much concurrency: the      *)
(* error carries no key.                                                   *)
DeleteOfNoKeys ==
    \E i \in DOMAIN calls :
        /\ calls[i].op = "delete"
        /\ calls[i].args.keys = KeyArray(<<>>)
        /\ Failed(i)
        /\ calls[i].outcome.error.tag = "R2ConcurrencyError"
        /\ calls[i].outcome.error.key = {}

----------------------------------------------------------------------------
(* The operation tag of a run and the keys its request attempted. *)
InvokedOperation(call) == call.op

ItemsOf(keys) == { keys.items[n] : n \in DOMAIN keys.items }

AttemptedKeys(call) ==
    CASE call.op \in {"head", "get", "put"} -> {call.key}
      [] call.op = "delete" ->
            IF call.args.keys.type = "string"
            THEN {call.args.keys.value}
            ELSE ItemsOf(call.args.keys)
      [] call.op = "list" -> {}
      [] call.op \in {"createMultipartUpload", "resumeMultipartUpload"} ->
            {call.args.key}
      [] OTHER -> {call.args.upload.key}

(* C18: attribution invariant.  Every error the facade reports has the tag *)
(* of the invoked operation as its operation, and a key it carries is a    *)
(* key the call attempted; in particular an error of list carries no key.  *)
(* Stated as the claim; the code violates it, since mapError fills a       *)
(* mandatory key field with the empty string when the call has no key.     *)
C18_Attribution ==
    \A i \in DOMAIN calls :
        Failed(i) =>
            /\ calls[i].outcome.error.operation = InvokedOperation(calls[i])
            /\ HasKey(calls[i].outcome.error) =>
                 calls[i].outcome.error.key \subseteq AttemptedKeys(calls[i])

(* The operation half of C18 holds on its own. *)
OperationAttributed ==
    \A i \in DOMAIN calls :
        Failed(i) =>
            calls[i].outcome.error.operation = InvokedOperation(calls[i])

(* A list rejected with status 429 reported as RateLimited for key "". *)
ListErrorWithKey ==
    \E i \in DOMAIN calls :
        /\ calls[i].op = "list"
        /\ calls[i].outcome =
              [kind |-> "fail",
               error |-> [tag |-> "R2RateLimitError", key |-> {""},
                          operation |-> "list"]]

----------------------------------------------------------------------------
(* The message getters of the error classes, env.ts lines 211-1085, on the *)
(* variants mapError builds.  mapError never sets retryAfter, sizeBytes,   *)
(* limit, uploadId, partNumber, bucketName or algorithm, so the parts of a *)
(* message that depend on them are empty.  A key is a set: {s} for the     *)
(* string s, {} for undefined.                                             *)

(* `"${this.key}"` for a key that is a string. *)
Quoted(k) == "\"" \o KeyOrEmpty(k) \o "\""

(* this.key ? ` for key "${this.key}"` : "" *)
keyMsg(k) ==
    IF k = {} \/ k = {""} THEN "" ELSE " for key " \o Quoted(k)

(* Template interpolation of a number: its decimal digits. *)
NumberText(n) == ToString(n)

(* this.retryAfter ? ` Retry after ${this.retryAfter}ms.` : ""  (a number  *)
(* is truthy unless it is 0).                                              *)
retryMsg(e) ==
    IF "retryAfter" \in DOMAIN e /\ e.retryAfter # 0
    THEN " Retry after " \o NumberText(e.retryAfter) \o "ms."
    ELSE ""

(* this.uploadId ? ` (uploadId: ${this.uploadId})` : ""  (a string is      *)
(* truthy unless it is empty).                                             *)
uploadMsg(e) ==
    IF "uploadId" \in DOMAIN e /\ e.uploadId # ""
    THEN " (uploadId: " \o e.uploadId \o ")"
    ELSE ""

(* An alternative part suffix that tests the part number for truthiness. *)
partMsg_Truthy(e) ==
    IF "partNumber" \in DOMAIN e /\ e.partNumber # 0
    THEN " (part: " \o NumberText(e.partNumber) \o ")"
    ELSE ""

(* this.partNumber !== undefined ? ` (part: ${this.partNumber})` : "" *)
partMsg(e) ==
    IF "partNumber" \in DOMAIN e
    THEN " (part: " \o NumberText(e.partNumber) \o ")"
    ELSE ""

(* The optional parts of the other getters.  A part tested for truthiness *)
(* (this.sizeBytes ? ... : "") is empty for 0 and for the empty string; a  *)
(* part tested with !== undefined is present whenever the field is.        *)
ErrorMessage(e) ==
    LET Number(f) == f \in DOMAIN e /\ e[f] # 0
        Text(f) == f \in DOMAIN e /\ e[f] # ""
        sizeMsg == IF Number("sizeBytes")
                   THEN " (" \o NumberText(e.sizeBytes) \o " bytes)"
                   ELSE ""
        limitMsg == IF Number("limit")
                    THEN " Maximum size is " \o NumberText(e.limit)
                             \o " bytes."
                    ELSE ""
        nameMsg == IF Text("bucketName")
                   THEN " \"" \o e.bucketName \o "\""
                   ELSE ""
        algoMsg == IF Text("algorithm")
                   THEN " (" \o e.algorithm \o ")"
                   ELSE ""
        smallPartMsg == IF "partNumber" \in DOMAIN e
                        THEN " part " \o NumberText(e.partNumber)
                        ELSE ""
        maxKeysMsg == IF "limit" \in DOMAIN e
                      THEN " (" \o NumberText(e.limit) \o ")"
                      ELSE ""
    IN
    CASE e.tag = "R2RateLimitError" ->
            "R2 rate limit exceeded for key " \o Quoted(e.key) \o " during "
                \o e.operation \o "." \o retryMsg(e)
      [] e.tag = "R2ConcurrencyError" ->
            "R2 concurrency limit exceeded" \o keyMsg(e.key) \o " during "
                \o e.operation \o ": " \o e.reason
      [] e.tag = "R2ObjectTooLargeError" ->
            "R2 object too large for key " \o Quoted(e.key) \o sizeMsg
                \o "." \o limitMsg
      [] e.tag = "R2InvalidKeyError" ->
            "Invalid R2 key " \o Quoted(e.key) \o " during " \o e.operation
                \o ": " \o e.reason
      [] e.tag = "R2MetadataError" ->
            "Invalid R2 metadata for key " \o Quoted(e.key) \o sizeMsg
                \o " during "
                \o e.operation \o ": " \o e.reason
      [] e.tag = "R2PreconditionFailedError" ->
            "R2 precondition failed for key " \o Quoted(e.key) \o " during "
                \o e.operation \o ": " \o e.condition
      [] e.tag = "R2MultipartError" ->
            "R2 multipart upload error" \o keyMsg(e.key) \o uploadMsg(e)
                \o partMsg(e) \o " during " \o e.operation \o ": "
                \o e.reason
      [] e.tag = "R2BucketNotFoundError" ->
            "R2 bucket" \o nameMsg \o " not found during " \o e.operation
      [] e.tag = "R2NotEnabledError" ->
            "R2 not enabled on account during " \o e.operation
                \o ". Please enable through the Cloudflare Dashboard."
      [] e.tag = "R2AuthorizationError" ->
            "R2 authorization failed during " \o e.operation \o ": "
                \o e.reason
      [] e.tag = "R2NetworkError" ->
            "R2 network error" \o keyMsg(e.key) \o " during " \o e.operation
                \o ": " \o e.reason
      [] e.tag = "R2ObjectTooSmallError" ->
            "R2 object too small for key " \o Quoted(e.key)
                \o smallPartMsg \o sizeMsg \o " during "
                \o e.operation
                \o ". Parts must be >= 5 MiB except the last part."
      [] e.tag = "R2BadDigestError" ->
            "R2 checksum validation failed" \o algoMsg \o " for key "
                \o Quoted(e.key)
                \o " during " \o e.operation \o ": " \o e.reason
      [] e.tag = "R2InvalidMaxKeysError" ->
            "R2 invalid MaxKeys parameter" \o maxKeysMsg \o " during "
                \o e.operation
                \o ". MaxKeys must be positive integer <= 1000."
      [] e.tag = "R2InvalidRangeError" ->
            "R2 invalid range for key " \o Quoted(e.key) \o " during "
                \o e.operation \o ": " \o e.reason
      [] e.tag = "R2InvalidArgumentError" ->
            "R2 invalid argument" \o keyMsg(e.key) \o " during "
                \o e.operation \o ": " \o e.reason
      [] e.tag = "R2InternalError" ->
            "R2 internal error" \o keyMsg(e.key) \o " during " \o e.operation
                \o ": " \o e.reason

EmbedsOperation(e) == Includes(ErrorMessage(e), e.operation)

EmbedsKey(e) == \A k \in e.key : Includes(ErrorMessage(e), k)

(* C19: the message of every error variant embeds the operation, and       *)
(* embeds the key whenever the variant carries one.  Stated as the claim;  *)
(* the code violates it, since the message of ObjectTooLarge names the key *)
(* but not the operation.                                                  *)
C19_MessageEmbeds ==
    (Called /\ result.kind = "return") =>
        /\ EmbedsOperation(result.value)
        /\ HasKey(result.value) => EmbedsKey(result.value)

(* What does hold: every variant but ObjectTooLarge embeds the operation,  *)
(* and every variant that carries a key embeds it.                         *)
MessageEmbedsButTooLarge ==
    (Called /\ result.kind = "return") =>
        /\ result.value.tag # "R2ObjectTooLargeError" =>
             EmbedsOperation(result.value)
        /\ HasKey(result.value) => EmbedsKey(result.value)

(* The message of an ObjectTooLarge of put on "counter". *)
TooLargeMessage ==
    /\ Returned("R2ObjectTooLargeError")
    /\ operation = "put" /\ key = {"counter"}
    /\ ErrorMessage(result.value) = "R2 object too large for key \"counter\"."

----------------------------------------------------------------------------
(* makeEnv, env.ts lines 19-51.  A binding is a JavaScript value: its      *)
(* typeof, the names of the properties it has, and what it is (a key-value *)
(* store, an object-storage bucket, a database, a plain variable, ...).    *)

Binding(type, props, is) == [type |-> type, props |-> props, is |-> is]

KVBinding ==
    Binding("object", {"get", "getWithMetadata", "put", "list", "delete"},
            "kv")

BucketBinding ==
    Binding("object",
            {"head", "get", "put", "delete", "list", "createMultipartUpload",
             "resumeMultipartUpload"}, "bucket")

DatabaseBinding ==
    Binding("object", {"prepare", "batch", "exec", "dump"}, "database")

Bindings ==
    { KVBinding, BucketBinding, DatabaseBinding,
      Binding("object", {"get", "put"}, "object"),
      Binding("object", {}, "object"),
      Binding("string", {}, "variable"),
      Binding("function", {"get", "put", "list", "delete"}, "function"),
      Binding("undefined", {}, "undefined"),
      Binding("null", {}, "null") }

BindingNames == { "STORE", "BUCKET", "~raw" }

Envs == UNION { [names -> Bindings] : names \in SUBSET BindingNames }

(* isKVNamespace, env.ts lines 19-29; typeof null is "object". *)
isKVNamespace(binding) ==
    /\ binding.type # "undefined"
    /\ binding.type # "null"
    /\ binding.type \in {"object", "null"}
    /\ "get" \in binding.props
    /\ "put" \in binding.props
    /\ "list" \in binding.props
    /\ "delete" \in binding.props

(* make of ./kv-namespace (imported at env.ts line 5): the key-value       *)
(* facade around a binding.                                                *)
makeKVNamespace(binding) == [facade |-> "KVNamespace", raw |-> binding]

(* makeEnv, env.ts lines 35-51: the object starts as { "~raw": env } and   *)
(* the loop then assigns one entry per binding name of env, in the same    *)
(* object, so the entry of a binding named "~raw" replaces the first one.  *)
makeEnv(env_) ==
    [kind |-> "env",
     entries |->
        [name \in (DOMAIN env_) \cup {"~raw"} |->
            IF name \in DOMAIN env_
            THEN IF isKVNamespace(env_[name])
                 THEN makeKVNamespace(env_[name])
                 ELSE env_[name]
            ELSE env_]]

InitMakeEnv ==
    /\ error = Object({}, {}, Undefined)
    /\ operation = "head"
    /\ key = {}
    /\ result = NotCalled
    /\ calls = <<>>
    /\ providerCalls = <<>>
    /\ env \in Envs
    /\ effectEnv = NotCalled
    /\ instances = <<>>
    /\ classified = <<>>

MakeEnv ==
    /\ effectEnv = NotCalled
    /\ effectEnv' = makeEnv(env)
    /\ UNCHANGED <<error, operation, key, result, calls, providerCalls, env,
                   instances, classified>>

NextMakeEnv == MakeEnv

SpecMakeEnv == InitMakeEnv /\ [][NextMakeEnv]_vars

(* C20: makeEnv wraps exactly the bindings that are key-value stores.  For *)
(* every binding name of env the result holds the key-value facade of the  *)
(* binding if the binding is a key-value store and the identical binding   *)
(* otherwise; a bucket binding is never wrapped.  Stated as the claim; the *)
(* code violates it, since isKVNamespace accepts every object that has     *)
(* get, put, list and delete, which a bucket binding has.                  *)
C20_WrapsExactlyKV ==
    effectEnv.kind = "env" =>
        \A name \in DOMAIN env :
            effectEnv.entries[name] =
                IF env[name].is = "kv"
                THEN makeKVNamespace(env[name])
                ELSE env[name]

(* What does hold: key-value stores are wrapped, and every binding other   *)
(* than an object with the four methods is passed through unchanged.       *)
WrapsKVAndPassesOthers ==
    effectEnv.kind = "env" =>
        /\ DOMAIN effectEnv.entries = (DOMAIN env) \cup {"~raw"}
        /\ \A name \in DOMAIN env :
              /\ env[name].is = "kv" =>
                   effectEnv.entries[name] = makeKVNamespace(env[name])
              /\ env[name].is \notin {"kv", "bucket"} =>
                   effectEnv.entries[name] = env[name]

(* A bucket binding wrapped in the key-value facade. *)
BucketWrapped ==
    /\ effectEnv.kind = "env"
    /\ "BUCKET" \in DOMAIN env
    /\ env["BUCKET"] = BucketBinding
    /\ effectEnv.entries["BUCKET"] = makeKVNamespace(BucketBinding)

----------------------------------------------------------------------------
(* The error classes used directly: a caller constructs an error from its  *)
(* properties (new R2RateLimitError({...})) and reads its message.  The    *)
(* optional fields are given or left out; the numbers and strings given    *)
(* include the falsy ones (0 and the empty string).                        *)

MaxInstances == 2

RetryAfters == {0, 1000}
GivenUploadIds == {"", "upload-123"}
PartNumbers == {0, 2}

(* One optional property: left out, or given with a value. *)
Option(name, values) == {<<>>} \cup {name :> v : v \in values}

RateLimitProps ==
    {[key |-> "test-key", operation |-> op] @@ retry :
        op \in {"put", "get"}, retry \in Option("retryAfter", RetryAfters)}

MultipartProps ==
    {[key |-> k, operation |-> "uploadPart",
      reason |-> Str("Invalid part number")] @@ id @@ part :
        k \in {{}, {"test-key"}},
        id \in Option("uploadId", GivenUploadIds),
        part \in Option("partNumber", PartNumbers)}

(* A constructed error whose message has not been read yet. *)
Constructed(outcome) == [outcome |-> outcome, message |-> {}]

ConstructRateLimit ==
    /\ Len(instances) < MaxInstances
    /\ \E props \in RateLimitProps :
         instances' = Append(instances, Constructed(R2RateLimitError(props)))
    /\ UNCHANGED <<error, operation, key, result, calls, providerCalls,
                   env, effectEnv, classified>>

ConstructMultipart ==
    /\ Len(instances) < MaxInstances
    /\ \E props \in MultipartProps :
         instances' = Append(instances, Constructed(R2MultipartError(props)))
    /\ UNCHANGED <<error, operation, key, result, calls, providerCalls,
                   env, effectEnv, classified>>

(* error.message: the getter of the instance's class. *)
ReadMessage ==
    /\ \E i \in DOMAIN instances :
         /\ instances[i].outcome.kind = "return"
         /\ instances[i].message = {}
         /\ instances' =
              [instances EXCEPT
                 ![i] = [outcome |-> instances[i].outcome,
                         message |->
                            {ErrorMessage(instances[i].outcome.value)}]]
    /\ UNCHANGED <<error, operation, key, result, calls, providerCalls,
                   env, effectEnv, classified>>

NextErrorClass == ConstructRateLimit \/ ConstructMultipart \/ ReadMessage

SpecErrorClass == Init /\ [][NextErrorClass]_vars

----------------------------------------------------------------------------
(* Claims about the messages of constructed errors. *)

(* The instance at position i is of class t and its message was read. *)
ReadOf(i, t) ==
    /\ instances[i].outcome.kind = "return"
    /\ instances[i].outcome.value.tag = t
    /\ instances[i].message # {}

InstanceOf(i) == instances[i].outcome.value

MessageRead(i) == CHOOSE m \in instances[i].message : TRUE

Has(e, field) == field \in DOMAIN e

(* C21: the message of a RateLimited error contains the hint "Retry after  *)
(* <retryAfter>ms" whenever retryAfter is provided, for every numeric      *)
(* value, and contains no retry hint when retryAfter is absent.            *)
C21_RetryHint ==
    \A i \in DOMAIN instances :
        ReadOf(i, "R2RateLimitError") =>
            IF Has(InstanceOf(i), "retryAfter")
            THEN Includes(MessageRead(i),
                          "Retry after "
                              \o NumberText(InstanceOf(i).retryAfter)
                              \o "ms")
            ELSE ~Includes(MessageRead(i), "Retry after")

(* A RateLimited error constructed with retryAfter 0 whose message holds   *)
(* no retry hint.                                                          *)
RetryAfterZeroNoHint ==
    \E i \in DOMAIN instances :
        /\ ReadOf(i, "R2RateLimitError")
        /\ Has(InstanceOf(i), "retryAfter")
        /\ InstanceOf(i).retryAfter = 0
        /\ ~Includes(MessageRead(i), "Retry after")

(* The hint is present for every provided retryAfter other than 0 and      *)
(* absent otherwise.                                                       *)
RetryHintWhenNonZero ==
    \A i \in DOMAIN instances :
        ReadOf(i, "R2RateLimitError") =>
            IF Has(InstanceOf(i), "retryAfter")
                   /\ InstanceOf(i).retryAfter # 0
            THEN Includes(MessageRead(i),
                          "Retry after "
                              \o NumberText(InstanceOf(i).retryAfter)
                              \o "ms")
            ELSE ~Includes(MessageRead(i), "Retry after")

(* C22: the message of a MultipartError contains the uploadId whenever     *)
(* uploadId is provided and the part number whenever partNumber is         *)
(* provided, part number 0 included.                                       *)
C22_MultipartMessage ==
    \A i \in DOMAIN instances :
        ReadOf(i, "R2MultipartError") =>
            /\ Has(InstanceOf(i), "uploadId") =>
                   Includes(MessageRead(i), InstanceOf(i).uploadId)
            /\ Has(InstanceOf(i), "partNumber") =>
                   Includes(MessageRead(i),
                            "part: " \o NumberText(InstanceOf(i).partNumber))

C22_Witness ==
    \E i \in DOMAIN instances :
        /\ ReadOf(i, "R2MultipartError")
        /\ Has(InstanceOf(i), "uploadId")
        /\ InstanceOf(i).uploadId = "upload-123"
        /\ Has(InstanceOf(i), "partNumber")
        /\ InstanceOf(i).partNumber = 0
        /\ Includes(MessageRead(i), "upload-123")
        /\ Includes(MessageRead(i), "part: 0")

----------------------------------------------------------------------------
(* Claims about the letter case of the message. *)

(* Every string mapError passes to message.includes, env.ts lines          *)
(* 1423-1510.                                                              *)
ScannedKeywords ==
    { "key", "empty", "invalid", "metadata", "Metadata", "multipart", "part",
      "upload", "NoSuchUpload", "InvalidPart", "digest", "checksum",
      "too large", "exceeds", "too small", "TooMuchConcurrency",
      "concurrency", "NoSuchBucket", "Please enable", "not entitled" }

(* The variant an outcome of mapError names (the exception when it threw). *)
Variant(r) == IF r.kind = "return" THEN r.value.tag ELSE r.exception

(* The raw failure with its message replaced by the text t. *)
WithMessage(e, t) == Object(e.code, e.status, Str(t))

StringMessage == error.shape = "object" /\ error.message.type = "string"

(* C24 as stated: two raw failures that differ only in the letter case of  *)
(* their message are classified as the same variant; here the failure     *)
(* classified and the same failure with its message in lowercase.          *)
C24_CaseInsensitive ==
    (Called /\ StringMessage) =>
        Variant(mapError(WithMessage(error, Lower(error.message.text)),
                         operation, key))
            = Variant(result)

(* C24: the keyword scan is case-sensitive: a message that holds no        *)
(* keyword as mapError writes it is classified as a message without        *)
(* keywords is, whatever its lowercase form holds.                         *)
C24_CaseSensitive ==
    (/\ Called
     /\ StringMessage
     /\ \A kw \in ScannedKeywords : ~Includes(error.message.text, kw)) =>
        Variant(result)
            = Variant(mapError(WithMessage(error, ""), operation, key))

(* "Key is Empty" under status 400 is an InvalidArgument while "key is     *)
(* empty" is an InvalidKey.                                                *)
C24_Witness ==
    /\ Called
    /\ StringMessage
    /\ error.message.text = "Key is Empty"
    /\ error.code = {}
    /\ error.status = {400}
    /\ Returned("R2InvalidArgumentError")
    /\ Variant(mapError(WithMessage(error, "key is empty"), operation, key))
           = "R2InvalidKeyError"

----------------------------------------------------------------------------
(* The classification as the tables of the claims above state it: the      *)
(* provider code, else the status, else under status 400 the first of the  *)
(* six groups, else the first of the three groups of the message           *)
(* detection.  For a raw failure whose message is a string or is missing.  *)
ReferenceVariant(e) ==
    LET text == IF e.shape = "object" /\ e.message.type = "string"
                THEN e.message.text
                ELSE StringOf(e)
    IN  IF \E c \in CodeTable : CodeOf(e) = {c[1]}
        THEN (CHOOSE c \in CodeTable : CodeOf(e) = {c[1]})[2]
        ELSE IF \E st \in StatusTable : StatusOf(e) = {st[1]}
        THEN (CHOOSE st \in StatusTable : StatusOf(e) = {st[1]})[2]
        ELSE IF StatusOf(e) = {400}
        THEN FirstMatch(Groups400, text, "R2InvalidArgumentError")
        ELSE FirstMatch(GroupsCatchAll, text, "R2NetworkError")

----------------------------------------------------------------------------
(* SpecClassify: mapError called repeatedly by a caller of the module,     *)
(* between runs of the facade's createMultipartUpload, whose catch calls   *)
(* mapError too when the provider rejects.  Each call is recorded with its arguments, its outcome,   *)
(* the message read from the variant returned and the number of facade     *)
(* runs that had ended when it was made.                                   *)

MaxClassified == 2

ClassifiedFailures ==
    { Object({}, {429}, Undefined),
      Object({}, {}, Str("TooMuchConcurrency")) }

ClassifiedOperations == { "get", "createMultipartUpload" }

ClassifiedKeys == { {}, {"counter"} }

Ended == Cardinality({i \in DOMAIN calls : calls[i].state = "done"})

(* error.message of the outcome of a call: of the variant returned. *)
MessageOfOutcome(outcome) ==
    IF outcome.kind = "return" THEN {ErrorMessage(outcome.value)} ELSE {}

ClassifiedCall(e, op, k, outcome) ==
    [error |-> e, operation |-> op, key |-> k, outcome |-> outcome,
     message |-> MessageOfOutcome(outcome), after |-> Ended]

(* An alternative classifier that memoizes by raw failure: a failure it    *)
(* has classified before gets the variant built then, whatever the         *)
(* operation and key of the present call.                                  *)
Classify_Memoized ==
    /\ Len(classified) < MaxClassified
    /\ \E e \in ClassifiedFailures, op \in ClassifiedOperations,
          k \in ClassifiedKeys :
         LET seen == { j \in DOMAIN classified : classified[j].error = e }
             first == CHOOSE j \in seen : \A n \in seen : j <= n
         IN  classified' =
                Append(classified,
                       ClassifiedCall(e, op, k,
                           IF seen # {}
                           THEN classified[first].outcome
                           ELSE mapError(e, op, k)))
    /\ UNCHANGED <<error, operation, key, result, calls, providerCalls,
                   env, effectEnv, instances>>

Classify ==
    /\ Len(classified) < MaxClassified
    /\ \E e \in ClassifiedFailures, op \in ClassifiedOperations,
          k \in ClassifiedKeys :
         classified' =
            Append(classified,
                   ClassifiedCall(e, op, k, mapError(e, op, k)))
    /\ UNCHANGED <<error, operation, key, result, calls, providerCalls,
                   env, effectEnv, instances>>

(* The provider rejects the runs of the facade with the failures that are *)
(* being classified.                                                       *)
NextClassify ==
    \/ Classify
    \/ CreateMultipartUploadCall
    \/ SettleRun /\ RejectedWith(ClassifiedFailures)'

SpecClassify == Init /\ [][NextClassify]_vars

(* The message of a RateLimited or TooMuchConcurrency variant written as   *)
(* a function of the operation, the key and the reason alone.              *)
MessageFromFields(tag, op, k, reason) ==
    IF tag = "R2RateLimitError"
    THEN "R2 rate limit exceeded for key \""
             \o (IF k = {} THEN "" ELSE CHOOSE x \in k : TRUE)
             \o "\" during " \o op \o "."
    ELSE "R2 concurrency limit exceeded"
             \o (IF k \in {{}, {""}} THEN ""
                 ELSE " for key \"" \o (CHOOSE x \in k : TRUE) \o "\"")
             \o " during " \o op \o ": " \o reason

(* The recorded call c returned what its own arguments determine: the      *)
(* variant of the reference classification of its raw failure, carrying    *)
(* its operation and its key (the empty string for no key when the key is  *)
(* mandatory), and the message those fields determine.                     *)
FromArguments(c) ==
    /\ c.outcome.kind = "return"
    /\ c.outcome.value.tag = ReferenceVariant(c.error)
    /\ c.outcome.value.operation = c.operation
    /\ c.outcome.value.key =
          (IF c.key = {} /\ c.outcome.value.tag = "R2RateLimitError"
           THEN {""} ELSE c.key)
    /\ c.message =
          { MessageFromFields(c.outcome.value.tag, c.operation,
                              c.outcome.value.key,
                              IF "reason" \in DOMAIN c.outcome.value
                              THEN c.outcome.value.reason ELSE "") }

(* C25: classification is deterministic and stateless: every call of       *)
(* mapError returns the variant, fields and message that its raw failure,  *)
(* operation and key determine, whatever calls of mapError and runs of the *)
(* facade came before it, so that two calls with the same arguments return *)
(* the same variant with the same fields and message; a run of the facade  *)
(* rejected with the same failure for the same operation and key fails     *)
(* with that same variant; and equal variants have equal messages.         *)
C25_Deterministic ==
    /\ \A i \in DOMAIN classified :
          /\ FromArguments(classified[i])
          /\ \A j \in DOMAIN classified :
                /\ (/\ classified[i].error = classified[j].error
                    /\ classified[i].operation = classified[j].operation
                    /\ classified[i].key = classified[j].key) =>
                       /\ classified[i].outcome = classified[j].outcome
                       /\ classified[i].message = classified[j].message
                /\ classified[i].outcome = classified[j].outcome =>
                       classified[i].message = classified[j].message
          /\ \A n \in DOMAIN calls :
                (/\ calls[n].state = "done"
                 /\ calls[n].response.kind = "raise"
                 /\ calls[n].response.error = classified[i].error
                 /\ calls[n].op = classified[i].operation
                 /\ {calls[n].args.key} = classified[i].key) =>
                    calls[n].outcome =
                       [kind |-> "fail",
                        error |-> classified[i].outcome.value]

(* Two calls with the same arguments, the first before any run of the      *)
(* facade had ended and the second after a run of createMultipartUpload    *)
(* rejected with the same failure had ended in the same variant.           *)
C25_Witness ==
    /\ Len(classified) = 2
    /\ classified[1].error = Object({}, {429}, Undefined)
    /\ classified[2].error = classified[1].error
    /\ classified[1].operation = "createMultipartUpload"
    /\ classified[2].operation = "createMultipartUpload"
    /\ classified[1].key = {"counter"} /\ classified[2].key = {"counter"}
    /\ classified[1].after = 0
    /\ classified[2].after > 0
    /\ classified[2].outcome =
          Return([tag |-> "R2RateLimitError", key |-> {"counter"},
                  operation |-> "createMultipartUpload"])
    /\ classified[1].outcome = classified[2].outcome
    /\ classified[2].message =
          {"R2 rate limit exceeded for key \"counter\" during createMultipartUpload."}
    /\ \E n \in DOMAIN calls :
          /\ calls[n].state = "done"
          /\ calls[n].response = Raise(classified[2].error)
          /\ calls[n].outcome =
                [kind |-> "fail", error |-> classified[2].outcome.value]

----------------------------------------------------------------------------
(* SpecHandle: one session handle, wrapMultipartUpload(TheUpload), used    *)
(* for a sequence of uploadPart, complete and abort calls, each awaited    *)
(* before the next.  The provider's log keeps the arguments each call      *)
(* forwarded to the provider upload.                                       *)

HandlePartLists == { <<Confirmation(1)>>, <<Confirmation(1), Confirmation(2)>> }

(* The value argument of uploadPart: the data of each part. *)
PartValues == [n \in {1, 2} |-> IF n = 1 THEN "part-data" ELSE "other-data"]

(* A call of a method of the provider upload with its arguments. *)
ForwardedCall(call, method, args) ==
    [call |-> call, method |-> method, args |-> args]

(* The part numbers the provider confirmed to earlier uploadPart runs. *)
ConfirmedParts ==
    { calls[i].outcome.value.partNumber :
        i \in { j \in DOMAIN calls :
                  /\ calls[j].op = "uploadPart"
                  /\ calls[j].state = "done"
                  /\ calls[j].outcome.kind = "success" } }

(* An alternative wrapper that remembers the parts it uploaded and, on     *)
(* complete, forwards only the listed parts it has seen confirmed.         *)
ForwardedArgs_Remembered(op, args) ==
    CASE op = "uploadPart" -> <<args.partNumber, args.value>>
      [] op = "completeMultipartUpload" ->
            <<SelectSeq(args.uploadedParts,
                        LAMBDA p : p.partNumber \in ConfirmedParts)>>
      [] op = "abortMultipartUpload" -> <<>>

(* upload.uploadPart(partNumber, value), upload.complete(uploadedParts),   *)
(* upload.abort(): the arguments are those of the caller.                  *)
ForwardedArgs(op, args) ==
    CASE op = "uploadPart" -> <<args.partNumber, args.value>>
      [] op = "completeMultipartUpload" -> <<args.uploadedParts>>
      [] op = "abortMultipartUpload" -> <<>>

Forwarded(op, method, args) ==
    Append(providerCalls,
           ForwardedCall(Len(calls) + 1, method, ForwardedArgs(op, args)))

HandleUploadPart ==
    /\ Len(calls) < MaxSessionCalls /\ Awaited
    /\ \E n \in DOMAIN PartValues :
         LET args == [upload |-> wrapMultipartUpload(TheUpload),
                      partNumber |-> n, value |-> PartValues[n]]
         IN  /\ calls' = Issued("uploadPart", args)
             /\ providerCalls' = Forwarded("uploadPart", "uploadPart", args)
    /\ UNCHANGED <<error, operation, key, result, env, effectEnv,
                   instances, classified>>

HandleComplete ==
    /\ Len(calls) < MaxSessionCalls /\ Awaited
    /\ \E parts \in HandlePartLists :
         LET args == [upload |-> wrapMultipartUpload(TheUpload),
                      uploadedParts |-> parts]
         IN  /\ calls' = Issued("completeMultipartUpload", args)
             /\ providerCalls' =
                   Forwarded("completeMultipartUpload", "complete", args)
    /\ UNCHANGED <<error, operation, key, result, env, effectEnv,
                   instances, classified>>

HandleAbort ==
    /\ Len(calls) < MaxSessionCalls /\ Awaited
    /\ LET args == [upload |-> wrapMultipartUpload(TheUpload)]
       IN  /\ calls' = Issued("abortMultipartUpload", args)
           /\ providerCalls' =
                 Forwarded("abortMultipartUpload", "abort", args)
    /\ UNCHANGED <<error, operation, key, result, env, effectEnv,
                   instances, classified>>

NextHandle == HandleUploadPart \/ HandleComplete \/ HandleAbort \/ SettleRun

SpecHandle == Init /\ [][NextHandle]_vars

(* The arguments of the caller of run i, as the provider should see them. *)
OwnArgs(i) ==
    CASE calls[i].op = "uploadPart" ->
            <<calls[i].args.partNumber, calls[i].args.value>>
      [] calls[i].op = "completeMultipartUpload" ->
            <<calls[i].args.uploadedParts>>
      [] calls[i].op = "abortMultipartUpload" -> <<>>

----------------------------------------------------------------------------
(* SpecInFlight: the ten operations of the facade, issued and settled in  *)
(* any interleaving as in SpecFacade, the provider rejecting with one of   *)
(* four failures: two that the cascade classifies and two whose message    *)
(* is not a string.                                                        *)

InFlightFailures ==
    { Object({}, {403}, Str("AccessDenied")),
      Object({}, {}, Num("42")),
      Object({}, {429}, Undefined),
      Object({}, {400}, Num("42")) }

NextInFlight ==
    \/ HeadCall
    \/ GetCall
    \/ PutCall
    \/ Settle /\ RejectedWith(InFlightFailures)'
    \/ DeleteCall
    \/ ListCall
    \/ CreateMultipartUploadCall
    \/ ResumeMultipartUploadCall /\ RejectedWith(InFlightFailures)'
    \/ UploadPartCall
    \/ CompleteCall
    \/ AbortCall
    \/ SettleRun /\ RejectedWith(InFlightFailures)'

SpecInFlight == Init /\ [][NextInFlight]_vars

(* The continuation of run i can run now: its provider promise may settle  *)
(* in the current state, whatever the other runs are doing.                *)
CanSettle(i) ==
    ENABLED ((Settle \/ SettleRun) /\ RejectedWith(InFlightFailures)'
                 /\ calls'[i].state = "done")

(* The key of the request of run i. *)
OwnKey(i) ==
    CASE calls[i].op \in {"head", "get", "put"} -> {calls[i].key}
      [] calls[i].op = "delete" -> AttributedKey(calls[i].args.keys)
      [] calls[i].op = "list" -> {}
      [] calls[i].op \in {"createMultipartUpload",
                          "resumeMultipartUpload"} -> {calls[i].args.key}
      [] OTHER -> {calls[i].args.upload.key}

(* Run i failed with variant t, attributed to its own operation and key. *)
OwnFailure(i, t) ==
    /\ calls[i].outcome.kind = "fail"
    /\ calls[i].outcome.error.tag = t
    /\ calls[i].outcome.error.operation = calls[i].op
    /\ HasKey(calls[i].outcome.error) =>
          /\ calls[i].outcome.error.key \in {OwnKey(i), {""}}
          /\ OwnKey(i) # {} => calls[i].outcome.error.key = OwnKey(i)
    /\ "cause" \in DOMAIN calls[i].outcome.error =>
          (calls[i].response.kind = "raise" =>
              calls[i].outcome.error.cause = calls[i].response.error)

(* What the caller of run i observes, stated from the response the         *)
(* provider gave to run i alone.                                           *)
OwnOutcome(i) ==
    LET c == calls[i]
        r == c.response
        o == c.outcome
    IN  CASE c.op = "resumeMultipartUpload" ->
               IF r.kind = "raise"
               THEN o.kind = "throw" /\ o.exception = r.error
               ELSE /\ o.kind = "return"
                    /\ o.value.key = r.value.key
                    /\ o.value.uploadId = r.value.uploadId
          [] c.op # "resumeMultipartUpload" /\ r.kind = "raise" ->
               IF r.error.message.type \in {"string", "undefined"}
               THEN OwnFailure(i, ReferenceVariant(r.error))
               ELSE o.kind = "die"
          [] c.op \in {"head", "get", "put"} /\ r.kind = "null" ->
               o = [kind |-> "none"]
          [] c.op \in {"head", "get", "put"} /\ r.kind = "value" ->
               o.kind = "some" /\ o.value = r.value
          [] c.op \in {"delete", "abortMultipartUpload"}
                /\ r.kind # "raise" ->
               o.kind = "success" /\ o.value = Void
          [] c.op \in {"list", "createMultipartUpload", "uploadPart"}
                /\ r.kind = "null" ->
               OwnFailure(i, "R2NetworkError")
          [] c.op = "list" /\ r.kind = "value" ->
               /\ o.kind = "success"
               /\ o.value.objects = r.value.objects
               /\ o.value.truncated = r.value.truncated
               /\ o.value.cursor = r.value.cursor
               /\ o.value.delimitedPrefixes = r.value.delimitedPrefixes
          [] c.op = "createMultipartUpload" /\ r.kind = "value" ->
               /\ o.kind = "success"
               /\ o.value.key = r.value.key
               /\ o.value.uploadId = r.value.uploadId
          [] c.op = "uploadPart" /\ r.kind = "value" ->
               /\ o.kind = "success"
               /\ o.value.partNumber = r.value.partNumber
               /\ o.value.etag = r.value.etag
          [] c.op = "completeMultipartUpload" /\ r.kind = "null" ->
               o.kind = "success" /\ o.value = Null
          [] c.op = "completeMultipartUpload" /\ r.kind = "value" ->
               o.kind = "success" /\ o.value = r.value

----------------------------------------------------------------------------
(* Claims about provider codes outside the lookup table. *)

(* The raw failure with its code property removed. *)
WithoutCode(e) == Object({}, e.status, e.message)

(* An outcome without the cause it may carry. *)
ButCause(r) ==
    IF r.kind = "return"
    THEN Return([f \in (DOMAIN r.value) \ {"cause"} |-> r.value[f]])
    ELSE r

UnmappedCode ==
    /\ error.shape = "object"
    /\ error.code # {}
    /\ error.code \subseteq UnmappedCodes

(* C28: a provider code that the lookup table does not map, the declared   *)
(* but unused NO_SUCH_OBJECT_KEY (10007) included, has no effect on the    *)
(* result: the failure is classified as the same failure with the code     *)
(* removed is (by status, then by message, then NetworkError), the cause   *)
(* of a NetworkError being the raw failure that was passed in.             *)
C28_UnmappedCodeIgnored ==
    (Called /\ UnmappedCode) =>
        /\ ButCause(result)
              = ButCause(mapError(WithoutCode(error), operation, key))
        /\ Returned("R2NetworkError") => result.value.cause = error

(* A failure with code 10007 and status 412 is a PreconditionFailed, as    *)
(* the same failure without the code is.                                   *)
C28_Witness ==
    /\ Called
    /\ error.code = {NO_SUCH_OBJECT_KEY}
    /\ error.status = {412}
    /\ Returned("R2PreconditionFailedError")
    /\ mapError(WithoutCode(error), operation, key) = result

----------------------------------------------------------------------------
(* Claims about the "~raw" entry of makeEnv's result. *)

(* C29 as stated: for every env, one with a binding named "~raw"           *)
(* included, the "~raw" entry of makeEnv(env) is env itself and the other  *)
(* entries are exactly the binding names of env.                           *)
C29_RawIsEnv ==
    effectEnv.kind = "env" =>
        /\ effectEnv.entries["~raw"] = env
        /\ (DOMAIN effectEnv.entries) \ {"~raw"} = (DOMAIN env) \ {"~raw"}

(* An env with a string binding named "~raw": the "~raw" entry of the      *)
(* result is that binding and the env is no longer reachable through it.   *)
RawOverwritten ==
    /\ effectEnv.kind = "env"
    /\ "~raw" \in DOMAIN env
    /\ env["~raw"] = Binding("string", {}, "variable")
    /\ effectEnv.entries["~raw"] = Binding("string", {}, "variable")

(* What does hold: without a binding named "~raw" the entry is env, and    *)
(* the entries are the binding names of env and "~raw".                    *)
RawIsEnvUnlessBound ==
    effectEnv.kind = "env" =>
        /\ "~raw" \notin DOMAIN env => effectEnv.entries["~raw"] = env
        /\ DOMAIN effectEnv.entries = (DOMAIN env) \cup {"~raw"}

----------------------------------------------------------------------------
(* The second version of mapError in the repository, env.ts lines          *)
(* 2722-2859, with its own copy of the error classes (same tags and        *)
(* fields) and of extractReason (env.ts lines 2706-2708).                  *)

(* case 400 of the second version, env.ts lines 2803-2837. *)
Case400Second(error_, message, operation_, key_) ==
    LET m == message.text IN
      IF Includes(m, "key") /\ (Includes(m, "empty") \/ Includes(m, "invalid"))
      THEN R2InvalidKeyError([key |-> KeyOrEmpty(key_),
                              operation |-> operation_,
                              reason |-> extractReason(message)])
      ELSE IF \/ Includes(m, "multipart") \/ Includes(m, "part")
              \/ Includes(m, "upload") \/ Includes(m, "NoSuchUpload")
              \/ Includes(m, "InvalidPart")
      THEN R2MultipartError([key |-> key_, operation |-> operation_,
                             reason |-> extractReason(message)])
      ELSE R2NetworkError([key |-> key_, operation |-> operation_,
                           reason |-> extractReason(message),
                           cause |-> error_])

(* default of the second version's switch, env.ts lines 2839-2857. *)
DefaultSecond(error_, message, operation_, key_) ==
    IF Includes(message.text, "TooMuchConcurrency")
           \/ Includes(message.text, "concurrency")
    THEN R2ConcurrencyError([key |-> key_, operation |-> operation_,
                             reason |-> extractReason(message)])
    ELSE R2NetworkError([key |-> key_, operation |-> operation_,
                         reason |-> message, cause |-> error_])

(* An alternative switch without the case for 401 and 403. *)
StatusSwitchSecond_NoAuth(error_, status, message, operation_, key_) ==
    CASE status = {429} ->
           R2RateLimitError([key |-> KeyOrEmpty(key_),
                             operation |-> operation_])
      [] status = {412} ->
           R2PreconditionFailedError([key |-> KeyOrEmpty(key_),
                                      operation |-> operation_,
                                      condition |-> extractReason(message)])
      [] OTHER -> DefaultSecond(error_, message, operation_, key_)

(* switch (status) of the second version, env.ts lines 2746-2858. *)
StatusSwitchSecond(error_, status, message, operation_, key_) ==
    CASE status = {429} ->
           R2RateLimitError([key |-> KeyOrEmpty(key_),
                             operation |-> operation_])
      [] status = {412} ->
           R2PreconditionFailedError([key |-> KeyOrEmpty(key_),
                                      operation |-> operation_,
                                      condition |-> extractReason(message)])
      [] status = {416} ->
           R2InvalidKeyError([key |-> KeyOrEmpty(key_),
                              operation |-> operation_,
                              reason |-> Str("Invalid range request")])
      [] status = {414} ->
           R2InvalidKeyError([key |-> KeyOrEmpty(key_),
                              operation |-> operation_,
                              reason |-> Str("Key exceeds 1024 byte limit")])
      [] status = {413} ->
           IF Includes(message.text, "metadata")
                  \/ Includes(message.text, "Metadata")
           THEN R2MetadataError([key |-> KeyOrEmpty(key_),
                                 operation |-> operation_,
                                 reason |->
                                    Str("Metadata exceeds 8192 byte limit")])
           ELSE R2ObjectTooLargeError([key |-> KeyOrEmpty(key_),
                                       operation |-> operation_])
      [] status \in {{401}, {403}} ->
           R2AuthorizationError([operation |-> operation_,
                                 reason |-> extractReason(message)])
      [] status = {400} -> Case400Second(error_, message, operation_, key_)
      [] OTHER -> DefaultSecond(error_, message, operation_, key_)

(* mapError, second version, env.ts lines 2722-2859.  The first test reads *)
(* message.includes unless the code is 10006: a message that is not a      *)
(* string makes it throw a TypeError there.                                *)
mapErrorSecond(error_, operation_, key_) ==
    LET message == MessageOf(error_)
        status == StatusOf(error_)
        code == CodeOf(error_)
    IN  IF code = {NO_SUCH_BUCKET}
        THEN R2BucketNotFoundError([operation |-> operation_])
        ELSE IF ~IsString(message) THEN Throw("TypeError")
        ELSE IF Includes(message.text, "NoSuchBucket")
        THEN R2BucketNotFoundError([operation |-> operation_])
        ELSE IF code = {NOT_ENABLED} \/ Includes(message.text, "Please enable")
        THEN R2NotEnabledError([operation |-> operation_])
        ELSE StatusSwitchSecond(error_, status, message, operation_, key_)

(* SpecVersions: both versions applied to the same raw failure, operation  *)
(* and key.                                                                *)
Versions(first, second) ==
    [kind |-> "versions", first |-> first, second |-> second]

MapErrorBoth ==
    /\ result = NotCalled
    /\ \E op \in R2Operation, k \in Keys :
         /\ operation' = op
         /\ key' = k
         /\ result' = Versions(mapError(error, op, k),
                               mapErrorSecond(error, op, k))
    /\ UNCHANGED <<error, calls, providerCalls, env, effectEnv,
                   instances, classified>>

SpecVersions == InitMapError /\ [][MapErrorBoth]_vars

----------------------------------------------------------------------------
(* The second version of the facade, make and wrapMultipartUpload at       *)
(* env.ts lines 2954-3170.  Its operations issue the same provider calls   *)
(* and have the same try blocks as those of the first version; the catch   *)
(* of each calls the second version of mapError.                           *)

(* What a run of the second make ends with: the value of the try block,   *)
(* or, when the try block raised, what the catch makes of the failure      *)
(* raised, the operation and the key it is given.                          *)
ConvertedSecond(call, response) ==
    LET tried == IF call.op \in {"head", "get", "put"}
                 THEN Converted(call, response)
                 ELSE ConvertedRun(call, response)
        raised == IF response.kind = "raise"
                  THEN response.error
                  ELSE NullRead(CASE call.op = "list" -> "objects"
                                  [] call.op = "createMultipartUpload" ->
                                        "key"
                                  [] OTHER -> "partNumber")
        given == CASE call.op \in {"head", "get", "put"} -> {call.key}
                   [] call.op = "delete" -> DeleteKey(call.args.keys)
                   [] call.op = "list" -> {}
                   [] call.op = "createMultipartUpload" -> {call.args.key}
                   [] OTHER -> {call.args.upload.key}
        mapped == mapErrorSecond(raised, call.op, given)
    IN  IF tried.kind \in {"fail", "die"}
        THEN IF mapped.kind = "return"
             THEN [kind |-> "fail", error |-> mapped.value]
             ELSE [kind |-> "die", defect |-> mapped.exception]
        ELSE tried

(* The provider's promise of a pending run settles and the continuation   *)
(* of the run, of the second make, converts it.                            *)
SettleSecond ==
    \E i \in DOMAIN calls :
        /\ calls[i].state = "pending"
        /\ \E response \in (IF calls[i].op \in {"head", "get", "put"}
                             THEN ProviderResponses
                             ELSE ResponsesOf(calls[i])) :
              calls' =
                [calls EXCEPT ![i] =
                   [calls[i] EXCEPT
                      !.state = "done", !.response = response,
                      !.outcome = ConvertedSecond(calls[i], response)]]
        /\ UNCHANGED <<error, operation, key, result, providerCalls,
                       env, effectEnv, instances, classified>>

NextSecondFacade ==
    \/ HeadCall \/ GetCall \/ PutCall
    \/ DeleteCall \/ ListCall \/ CreateMultipartUploadCall
    \/ ResumeMultipartUploadCall
    \/ UploadPartCall \/ CompleteCall \/ AbortCall
    \/ SettleSecond

SpecSecondFacade == Init /\ [][NextSecondFacade]_vars

(* head("counter") rejected with code 10031 fails with NetworkError in the *)
(* second make, whose mapError has no case for the code.                   *)
SecondMakeIgnoresCode ==
    \E i \in DOMAIN calls :
        /\ calls[i].op = "head" /\ calls[i].key = "counter"
        /\ calls[i].response =
              [kind |-> "raise",
               error |-> Object({PRECONDITION_FAILED}, {},
                                Str("precondition"))]
        /\ calls[i].outcome =
              [kind |-> "fail",
               error |-> [tag |-> "R2NetworkError", key |-> {"counter"},
                          operation |-> "head", reason |-> "precondition",
                          cause |-> calls[i].response.error]]

----------------------------------------------------------------------------
(* Claims about the two versions of the cascade. *)

BothCalled == result.kind = "versions"

(* The two outcomes are the same variant with the same operation and key. *)
SameVariant(a, b) ==
    /\ a.kind = "return" /\ b.kind = "return"
    /\ a.value.tag = b.value.tag
    /\ a.value.operation = b.value.operation
    /\ HasKey(a.value) = HasKey(b.value)
    /\ HasKey(a.value) => a.value.key = b.value.key

(* No provider code and status 429, 412, 401 or 403. *)
StatusInCommon ==
    /\ error.shape = "object"
    /\ error.code = {}
    /\ error.status \in {{429}, {412}, {401}, {403}}

CodeInCommon(c) == error.shape = "object" /\ error.code = {c}

(* C30 as stated: for every raw failure with no provider code whose status *)
(* is 429, 412, 401 or 403, and for every raw failure with provider code   *)
(* 10006 or 10042, both versions return the same variant with the same     *)
(* operation and key, whatever the message is.                             *)
C30_AgreeWhateverMessage ==
    (BothCalled /\ (\/ StatusInCommon
                    \/ CodeInCommon(NO_SUCH_BUCKET)
                    \/ CodeInCommon(NOT_ENABLED))) =>
        SameVariant(result.first, result.second)

(* What the first version returns for the failures of the claim when its   *)
(* constructor accepts the message: by code 10042, else by status.         *)
VariantInCommon ==
    CASE CodeInCommon(NOT_ENABLED) -> "R2NotEnabledError"
      [] error.status = {429} -> "R2RateLimitError"
      [] error.status = {412} -> "R2PreconditionFailedError"
      [] error.status \in {{401}, {403}} -> "R2AuthorizationError"

(* C30: the two versions return the same variant with the same operation   *)
(* and key for every raw failure with provider code 10006, whatever the    *)
(* message is, and for every raw failure with provider code 10042 or with  *)
(* no code and status 429, 412, 401 or 403 whose message is a string or is *)
(* missing and does not contain "NoSuchBucket" nor, unless the code is     *)
(* 10042, "Please enable".  They differ otherwise: a message containing    *)
(* "NoSuchBucket" gives BucketNotFound in the second version, and one      *)
(* containing "Please enable" gives NotEnabled, where the first version    *)
(* returns the variant of the code or status; and a message that is not a  *)
(* string makes the second version throw a TypeError, where the first      *)
(* returns NotEnabled (code 10042) or RateLimited (status 429) and throws  *)
(* a ParseError under status 412, 401 or 403.                              *)
C30_AgreeUnlessKeyword ==
    BothCalled =>
        /\ CodeInCommon(NO_SUCH_BUCKET) =>
              SameVariant(result.first, result.second)
        /\ (/\ CodeInCommon(NOT_ENABLED)
            /\ TextMessage
            /\ ~Includes(RawText, "NoSuchBucket")) =>
              SameVariant(result.first, result.second)
        /\ (/\ StatusInCommon
            /\ TextMessage
            /\ ~Includes(RawText, "NoSuchBucket")
            /\ ~Includes(RawText, "Please enable")) =>
              SameVariant(result.first, result.second)
        /\ (/\ StatusInCommon \/ CodeInCommon(NOT_ENABLED)
            /\ error.message.type = "string"
            /\ Includes(error.message.text, "NoSuchBucket")) =>
              /\ result.first.kind = "return"
              /\ result.first.value.tag = VariantInCommon
              /\ result.second.kind = "return"
              /\ result.second.value.tag = "R2BucketNotFoundError"
        /\ (/\ StatusInCommon
            /\ error.message.type = "string"
            /\ ~Includes(error.message.text, "NoSuchBucket")
            /\ Includes(error.message.text, "Please enable")) =>
              /\ result.first.kind = "return"
              /\ result.first.value.tag = VariantInCommon
              /\ result.second.kind = "return"
              /\ result.second.value.tag = "R2NotEnabledError"
        /\ (/\ StatusInCommon \/ CodeInCommon(NOT_ENABLED)
            /\ ~TextMessage) =>
              /\ result.second = Throw("TypeError")
              /\ IF CodeInCommon(NOT_ENABLED) \/ error.status = {429}
                 THEN /\ result.first.kind = "return"
                      /\ result.first.value.tag = VariantInCommon
                 ELSE result.first = Throw("ParseError")

(* Status 403 with an unrelated message: both versions return an           *)
(* AuthorizationError for the same operation.                              *)
C30_Witness ==
    /\ BothCalled
    /\ StatusInCommon
    /\ error.status = {403}
    /\ error.message = Str("AccessDenied")
    /\ result.first.kind = "return"
    /\ result.first.value.tag = "R2AuthorizationError"
    /\ SameVariant(result.first, result.second)

(* Status 429 with the message "NoSuchBucket": the first version returns   *)
(* RateLimited and the second BucketNotFound.                              *)
VersionsDisagree ==
    /\ BothCalled
    /\ StatusInCommon
    /\ error.status = {429}
    /\ error.message = Str("NoSuchBucket")
    /\ result.first.value.tag = "R2RateLimitError"
    /\ result.second.value.tag = "R2BucketNotFoundError"

(* Status 403 with the message 42: the first version throws a ParseError   *)
(* from the constructor of AuthorizationError and the second a TypeError   *)
(* from message.includes.                                                  *)
VersionsBothThrow ==
    /\ BothCalled
    /\ StatusInCommon
    /\ error.status = {403}
    /\ error.message = Num("42")
    /\ result.first = Throw("ParseError")
    /\ result.second = Throw("TypeError")
====
